---- MODULE Spec2Model ----
(***************************************************************************)
(* Model of the texture compiler (src/src/main.cpp): main's argument       *)
(* checks and dispatch, the three 2D compile functions and the cube-map    *)
(* pipeline.  External collaborators (stb_image, nvtt, bgfx) are modelled  *)
(* at their call sites: every call that can fail has both outcomes, and    *)
(* every codec / GPU call is appended to the history variable log.         *)
(***************************************************************************)
EXTENDS Integers, Sequences, FiniteSets, TLC

\* ---------------------------------------------------------------- bounds
MaxDim == 4              \* largest small width/height the PNG decoder yields
MaxNegDim == 1           \* most negative width/height tried is -MaxNegDim
MaxOutputSize == 2       \* largest --output-size
MaxIrradianceSize == 1   \* largest --irradiance-size
MaxPrefilterSize == 2    \* largest --prefilter-size
MaxDelay == 2            \* most frames between readTexture and availability
MaxCountSize == 40       \* count_mip_maps is run on every size 0..MaxCountSize
MaxPassLevels == 6       \* most mip levels of a prefilter face in the pass loop on its own
MaxFrames == 12         \* largest frame number at the entry of a wait loop on its own
MaxWrappers == 2         \* HandleWrapper objects looked at on their own
MaxHandles == 3          \* handles bgfx hands out to them

\* ------------------------------------------------------ program constants
MAX_TEXTURE_SIZE == 65535
CUBE_SIDES == 6
INVALID == -1            \* value of an int / handle that was never assigned

Max(a, b) == IF a >= b THEN a ELSE b

\* Bitwise AND of two's-complement integers (the `&` of lines 64, 144, 275).
RECURSIVE BitAnd(_, _)
BitAnd(x, y) ==
    IF x = 0 \/ y = 0 THEN 0
    ELSE IF x = -1 THEN y
    ELSE IF y = -1 THEN x
    ELSE (x % 2) * (y % 2) + 2 * BitAnd(x \div 2, y \div 2)

\* (v & (v - 1)) != 0
NotPowerOfTwoBits(v) == BitAnd(v, v - 1) # 0

\* ------------------------------------------------------------- enum types
Classes == {"albedo_roughness", "normal_metalness_ambient_occlusion", "parallax", "cube_map"}
Tiers == {"production", "development", "no_compression"}
CompressionValues == {"GOOD_BUT_SLOW", "POOR_BUT_FAST", "NO_COMPRESSION"}

\* nvtt formats. In nvtt.h Format_RGBA is an alias of Format_RGB.
Format_RGB == "RGBA"
Format_RGBA == Format_RGB
Format_BC3 == "BC3"
Format_BC4 == "BC4"
Format_BC6 == "BC6"
Format_BC7 == "BC7"

\* Pixel layouts set next to the format: default 8-bit RGBA of nvtt,
\* setPixelFormat(8, 0xFF, 0, 0, 0), setPixelFormat(16,16,16,16)+PixelType_Float.
PixelDefault == [bits |-> 32, channels |-> 4, type |-> "UnsignedNorm"]
PixelR8 == [bits |-> 8, channels |-> 1, type |-> "UnsignedNorm"]
PixelRGBA16F == [bits |-> 64, channels |-> 4, type |-> "Float"]
NoOptions == [format |-> "unset", pixel |-> PixelDefault]

\* ------------------------------------------------------------ the state
VARIABLES
    args,                 \* main's parsed command line
    pc,                   \* position in main / in the compile function
    result,               \* INVALID while running, then the return value
    data,                 \* RgbaWrapper / HdrWrapper
    surface,              \* nvtt::Surface surface
    normal,               \* nvtt::Surface normal
    metalness_ambient_occlusion,
    options,              \* compression options of the container in work
    total_mip_levels,
    mip_level,
    side,
    mip_size,
    current_view,
    frames,               \* bgfx frame counter
    frame_id,
    current_frame_id,
    backend,              \* what bgfx::init selected: renderer type, read-back latency
    cube_map_view_matrices, \* the view table picked by renderer type
    rendered,             \* per render target: the pass submitted into it
    data_to_save,
    live,                 \* bgfx handles created and not yet destroyed, in creation order
    destroyed,            \* bgfx handles in the order bgfx::destroy was called on them
    wrappers,             \* HandleWrapper objects looked at on their own: alive, handle held
    log                   \* history of decoder / codec / GPU calls

vars == <<args, pc, result, data, surface, normal, metalness_ambient_occlusion,
          options, total_mip_levels, mip_level, side, mip_size, current_view,
          frames, frame_id, current_frame_id, backend, cube_map_view_matrices, rendered,
          data_to_save, live, destroyed, wrappers, log>>

codecVars == <<surface, normal, metalness_ambient_occlusion, options, total_mip_levels>>
loopVars == <<mip_level, side, mip_size>>
frameVars == <<frames, frame_id, current_frame_id>>
renderVars == <<current_view, frameVars, backend, cube_map_view_matrices, rendered, data_to_save>>
gpuVars == <<renderVars, live, destroyed>>

\* One entry of the history: the call, the container or resource it is about, face and
\* mip, whether it succeeded, sizes, n (mip count / view id / frame token) and m (index
\* into the view table; the compression options for outputHeader; the frame number
\* last returned by bgfx::frame() for a read-back setImage).
Ev(op, c, face, mip, okv, w, h, n, m) ==
    [op |-> op, c |-> c, face |-> face, mip |-> mip, ok |-> okv,
     w |-> w, h |-> h, n |-> n, m |-> m]

NullSurface == [w |-> 0, h |-> 0, builds |-> 0, renorms |-> 0, src |-> "null", matrix |-> INVALID]
NoBackend == [renderer_type |-> "Noop", latency |-> 0]
NoBuffer == [src |-> <<>>, size |-> 0, matrix |-> INVALID, token |-> INVALID]
NoData == [loaded |-> FALSE, width |-> 0, height |-> 0, order |-> "RGBA"]

\* static int count_mip_maps(size_t size)
RECURSIVE count_mip_maps_from_zero(_)
count_mip_maps_from_zero(size) ==
    IF size > 1 THEN 1 + count_mip_maps_from_zero(size \div 2) ELSE 0
RECURSIVE count_mip_maps(_)
count_mip_maps(size) == IF size > 1 THEN 1 + count_mip_maps(size \div 2) ELSE 1

\* nvtt::Surface::countMipmaps(): levels down to 1x1 of the larger extent.
countMipmaps(s) == count_mip_maps(Max(s.w, s.h))

\* nvtt::Surface::buildNextMipmap(MipmapFilter_Box) when it succeeds.
KeepsMipLevel(s) == s
buildNextMipmap(s) ==
    [s EXCEPT !.w = Max(1, s.w \div 2), !.h = Max(1, s.h \div 2), !.builds = s.builds + 1]

\* `if (!call(...)) { return 1; }`
IgnoresFailure(okv) == FALSE
ReturnsOnFailure(okv) == ~okv

\* ------------------------------------------------------------------ main
\* Values of a size argument: absent (0), the smallest, the largest tried, too big.
SizeArgs(max) == {0, 1, max, MAX_TEXTURE_SIZE + 1}

DefaultArgs ==
    [parsed |-> TRUE, is_help |-> FALSE, classes |-> {}, tiers |-> {},
     input |-> "", output |-> "", output_size |-> 0,
     output_irradiance |-> "", output_irradiance_size |-> 0,
     output_prefilter |-> "", output_prefilter_size |-> 0]

ArgSpace ==
    {[DefaultArgs EXCEPT !.parsed = FALSE], [DefaultArgs EXCEPT !.is_help = TRUE],
     [DefaultArgs EXCEPT !.is_help = TRUE, !.classes = {"parallax"}, !.tiers = {"production"},
                         !.input = "in", !.output = "out"]}
    \cup
    [parsed : {TRUE}, is_help : {FALSE}, classes : SUBSET Classes, tiers : SUBSET Tiers,
     input : {"", "in"}, output : {"", "out"}, output_size : SizeArgs(MaxOutputSize),
     output_irradiance : {"", "irr"}, output_irradiance_size : SizeArgs(MaxIrradianceSize),
     output_prefilter : {"", "pre"}, output_prefilter_size : SizeArgs(MaxPrefilterSize)]

Init ==
    /\ args \in ArgSpace
    /\ pc = "main"
    /\ result = INVALID
    /\ data = NoData
    /\ surface = NullSurface
    /\ normal = NullSurface
    /\ metalness_ambient_occlusion = NullSurface
    /\ options = NoOptions
    /\ total_mip_levels = 0
    /\ mip_level = 0
    /\ side = 0
    /\ mip_size = 0
    /\ current_view = 0
    /\ frames = 0
    /\ frame_id = INVALID
    /\ current_frame_id = INVALID
    /\ backend = NoBackend
    /\ cube_map_view_matrices = "unset"
    /\ rendered = <<>>
    /\ data_to_save = NoBuffer
    /\ live = <<>>
    /\ destroyed = <<>>
    /\ wrappers = <<>>
    /\ log = <<>>

\* The Compression value main passes on (lines 1185-1192).
Compression(a) ==
    IF "production" \in a.tiers THEN "GOOD_BUT_SLOW"
    ELSE IF "development" \in a.tiers THEN "POOR_BUT_FAST"
    ELSE "NO_COMPRESSION"

compression == Compression(args)

CubeArgsMissing(a) ==
    \/ a.output_size = 0 \/ a.output_irradiance = "" \/ a.output_irradiance_size = 0
    \/ a.output_prefilter = "" \/ a.output_prefilter_size = 0

CubeArgsTooBig(a) ==
    \/ a.output_size > 65535 \/ a.output_irradiance_size > 65535
    \/ a.output_prefilter_size > 65535

CubeArgsIgnored(a) == FALSE
CubeArgsPresent(a) ==
    \/ a.output_size # 0 \/ a.output_irradiance # "" \/ a.output_irradiance_size # 0
    \/ a.output_prefilter # "" \/ a.output_prefilter_size # 0

\* Every check of main that ends the process with 1 before the dispatch.
MainRejects(a) ==
    \/ ~a.parsed
    \/ a.is_help
    \/ a.input = ""
    \/ a.output = ""
    \/ Cardinality(a.classes) # 1
    \/ Cardinality(a.tiers) # 1
    \/ IF "cube_map" \in a.classes
         THEN CubeArgsMissing(a) \/ CubeArgsTooBig(a)
         ELSE CubeArgsPresent(a)

\* The compile function main calls (lines 1211-1225).
Dispatch(a) ==
    IF "albedo_roughness" \in a.classes THEN "albedo_load"
    ELSE IF "normal_metalness_ambient_occlusion" \in a.classes THEN "normal_load"
    ELSE IF "parallax" \in a.classes THEN "parallax_load"
    ELSE "cube_bootstrap"

Return(value) ==
    /\ pc' = "done"
    /\ result' = value

Main ==
    /\ pc = "main"
    /\ IF MainRejects(args) THEN Return(1)
       ELSE /\ pc' = Dispatch(args)
            /\ UNCHANGED result
    /\ UNCHANGED <<args, wrappers, data, codecVars, loopVars, gpuVars, log>>

\* -------------------------------------------------- the image decoders
\* Widths and heights stbi_load / stbi_loadf can report through its int outputs.
RgbaDims == ((0 - MaxNegDim) .. MaxDim) \cup {MAX_TEXTURE_SIZE + 1}
HdrDims == ((0 - MaxNegDim) .. 0) \cup {2, MAX_TEXTURE_SIZE, MAX_TEXTURE_SIZE + 1}

\* RgbaWrapper data(input); if (data.data == nullptr) return 1;
Load2D(c, next) ==
    /\ \E loaded \in BOOLEAN, w \in RgbaDims, h \in RgbaDims :
         /\ loaded \/ (w = 0 /\ h = 0)
         /\ data' = [loaded |-> loaded, width |-> w, height |-> h, order |-> "RGBA"]
         /\ log' = Append(log, Ev("load", c, INVALID, INVALID, loaded, w, h, 0, INVALID))
         /\ IF loaded THEN pc' = next /\ UNCHANGED result ELSE Return(1)
    /\ UNCHANGED <<args, wrappers, codecVars, loopVars, gpuVars>>

\* The size check of compile_albedo_roughness and of
\* compile_normal_metalness_ambient_occlusion (lines 64, 144).
InvalidSizeNoPowerOfTwoCheck(w, h) ==
    w <= 0 \/ h <= 0 \/ w > 65535 \/ h > 65535
InvalidSize(w, h) ==
    \/ w <= 0 \/ h <= 0 \/ w > 65535 \/ h > 65535
    \/ NotPowerOfTwoBits(w) \/ NotPowerOfTwoBits(h)

\* The size check of compile_parallax (line 275): == 0 where the others have <= 0.
InvalidSizeParallax(w, h) ==
    \/ w = 0 \/ h = 0 \/ w > 65535 \/ h > 65535
    \/ NotPowerOfTwoBits(w) \/ NotPowerOfTwoBits(h)

Validate2D(c, invalid, next) ==
    /\ log' = Append(log, Ev("validate", c, INVALID, INVALID, ~invalid, data.width, data.height, 0, INVALID))
    /\ IF invalid THEN Return(1) ELSE pc' = next /\ UNCHANGED result
    /\ UNCHANGED <<args, wrappers, data, codecVars, loopVars, gpuVars>>

\* surface.setImage(InputFormat_BGRA_8UB, width, height, 1, data) and the flags.
SetImage2D(c, order, next) ==
    /\ data' = [data EXCEPT !.order = order]
    /\ \E okv \in BOOLEAN :
         /\ log' = Append(log, Ev("setImage", c, 0, 0, okv, data.width, data.height, 0, INVALID))
         /\ IF ReturnsOnFailure(okv)
              THEN Return(1) /\ UNCHANGED surface
              ELSE /\ surface' = [NullSurface EXCEPT !.w = data.width, !.h = data.height, !.src = "image"]
                   /\ pc' = next
                   /\ UNCHANGED result
    /\ UNCHANGED <<args, wrappers, normal, metalness_ambient_occlusion, options, total_mip_levels, loopVars, gpuVars>>

\* ---------------------------------------------- compression profile selector
\* switch (compression) of compile_albedo_roughness (lines 91-102).
AlbedoFormatSwapped(c) ==
    CASE c = "GOOD_BUT_SLOW" -> [format |-> Format_BC3, pixel |-> PixelDefault]
      [] c = "POOR_BUT_FAST" -> [format |-> Format_BC7, pixel |-> PixelDefault]
      [] c = "NO_COMPRESSION" -> [format |-> Format_RGBA, pixel |-> PixelDefault]
AlbedoFormat(c) ==
    CASE c = "GOOD_BUT_SLOW" -> [format |-> Format_BC7, pixel |-> PixelDefault]
      [] c = "POOR_BUT_FAST" -> [format |-> Format_BC3, pixel |-> PixelDefault]
      [] c = "NO_COMPRESSION" -> [format |-> Format_RGBA, pixel |-> PixelDefault]

\* switch (compression) of compile_normal_metalness_ambient_occlusion (lines 210-221).
NormalFormat(c) ==
    CASE c = "GOOD_BUT_SLOW" -> [format |-> Format_BC7, pixel |-> PixelDefault]
      [] c = "POOR_BUT_FAST" -> [format |-> Format_BC3, pixel |-> PixelDefault]
      [] c = "NO_COMPRESSION" -> [format |-> Format_RGBA, pixel |-> PixelDefault]

\* switch (compression) of compile_parallax (lines 297-308).
ParallaxFormat(c) ==
    CASE c \in {"GOOD_BUT_SLOW", "POOR_BUT_FAST"} -> [format |-> Format_BC4, pixel |-> PixelDefault]
      [] c = "NO_COMPRESSION" -> [format |-> Format_RGBA, pixel |-> PixelR8]

\* total_mip_levels = surface.countMipmaps(); if (!compressor.outputHeader(...)) return 1;
OutputHeader2D(c, fmt, next) ==
    /\ options' = fmt
    /\ total_mip_levels' = countMipmaps(surface)
    /\ \E okv \in BOOLEAN :
         /\ log' = Append(log, Ev("outputHeader", c, 1, INVALID, okv, surface.w, surface.h,
                                  countMipmaps(surface), fmt))
         /\ IF ReturnsOnFailure(okv)
              THEN Return(1) /\ UNCHANGED mip_level
              ELSE pc' = next /\ mip_level' = 0 /\ UNCHANGED result
    /\ UNCHANGED <<args, wrappers, data, surface, normal, metalness_ambient_occlusion, side, mip_size, gpuVars>>

\* `mip_level++` of the 2D loops and of the base cube loop.
SkipMipLevel(m) == m + 2
NextMipLevel(m) == m + 1

\* if (!compressor.compress(surface, 0, mip_level, ...)) return 1;
Compress2D(c, next) ==
    /\ mip_level < total_mip_levels
    /\ \E okv \in BOOLEAN :
         /\ log' = Append(log, Ev("compress", c, 0, mip_level, okv, surface.w, surface.h, 0, INVALID))
         /\ IF ReturnsOnFailure(okv) THEN Return(1) ELSE pc' = next /\ UNCHANGED result
    /\ UNCHANGED <<args, wrappers, data, codecVars, loopVars, gpuVars>>

\* The loop condition fails: timing output and return 0.
Return2D ==
    /\ ~(mip_level < total_mip_levels)
    /\ Return(0)
    /\ UNCHANGED <<args, wrappers, data, codecVars, loopVars, gpuVars, log>>

\* ------------------------------------------------- compile_albedo_roughness
AlbedoLoad == pc = "albedo_load" /\ Load2D("albedo", "albedo_validate")

AlbedoValidate ==
    /\ pc = "albedo_validate"
    /\ Validate2D("albedo", InvalidSize(data.width, data.height), "albedo_setImage")

AlbedoSetImage == pc = "albedo_setImage" /\ SetImage2D("albedo", "BGRA", "albedo_header")

AlbedoOutputHeader ==
    /\ pc = "albedo_header"
    /\ OutputHeader2D("albedo", AlbedoFormat(compression), "albedo_loop")

AlbedoCompress == pc = "albedo_loop" /\ Compress2D("albedo", "albedo_build")

\* if (mip_level + 1 < total_mip_levels && !surface.buildNextMipmap(...)) return 1;
AlbedoBuildNextMipmap ==
    /\ pc = "albedo_build"
    /\ IF mip_level + 1 < total_mip_levels
         THEN \E okv \in BOOLEAN :
                /\ log' = Append(log, Ev("buildNextMipmap", "albedo", 0, mip_level, okv,
                                         surface.w, surface.h, 0, INVALID))
                /\ IF ReturnsOnFailure(okv)
                     THEN Return(1) /\ UNCHANGED <<surface, mip_level>>
                     ELSE /\ surface' = buildNextMipmap(surface)
                          /\ mip_level' = NextMipLevel(mip_level)
                          /\ pc' = "albedo_loop"
                          /\ UNCHANGED result
         ELSE /\ mip_level' = NextMipLevel(mip_level)
              /\ pc' = "albedo_loop"
              /\ UNCHANGED <<surface, result, log>>
    /\ UNCHANGED <<args, wrappers, data, normal, metalness_ambient_occlusion, options, total_mip_levels,
                   side, mip_size, gpuVars>>

AlbedoReturn == pc = "albedo_loop" /\ Return2D

\* ------------------------------ compile_normal_metalness_ambient_occlusion
NormalLoad == pc = "normal_load" /\ Load2D("normal", "normal_validate")

NormalValidate ==
    /\ pc = "normal_validate"
    /\ Validate2D("normal", InvalidSize(data.width, data.height), "normal_setImage")

NormalSetImage == pc = "normal_setImage" /\ SetImage2D("normal", "BGRA", "normal_normal")

\* Blue channel reconstruction, then normal.setImage(InputFormat_RGBA_32F, ...) and flags.
NormalSetNormal ==
    /\ pc = "normal_normal"
    /\ \E okv \in BOOLEAN :
         /\ log' = Append(log, Ev("normal.setImage", "normal", 0, 0, okv, data.width, data.height, 0, INVALID))
         /\ IF ReturnsOnFailure(okv)
              THEN Return(1) /\ UNCHANGED normal
              ELSE /\ normal' = [NullSurface EXCEPT !.w = data.width, !.h = data.height, !.src = "normal"]
                   /\ pc' = "normal_mao"
                   /\ UNCHANGED result
    /\ UNCHANGED <<args, wrappers, data, surface, metalness_ambient_occlusion, options, total_mip_levels,
                   loopVars, gpuVars>>

\* metalness_ambient_occlusion.setImage(width, height, 1), copyChannel 2 and 3, flags.
NormalSetMetalnessAmbientOcclusion ==
    /\ pc = "normal_mao"
    /\ \E okv \in BOOLEAN :
         /\ log' = Append(log, Ev("metalness_ambient_occlusion.setImage", "normal", 0, 0, okv,
                                  data.width, data.height, 0, INVALID))
         /\ IF ReturnsOnFailure(okv)
              THEN Return(1) /\ UNCHANGED metalness_ambient_occlusion
              ELSE /\ metalness_ambient_occlusion' =
                        [NullSurface EXCEPT !.w = data.width, !.h = data.height,
                                            !.src = "metalness_ambient_occlusion"]
                   /\ pc' = "normal_header"
                   /\ UNCHANGED result
    /\ UNCHANGED <<args, wrappers, data, surface, normal, options, total_mip_levels, loopVars, gpuVars>>

NormalOutputHeader ==
    /\ pc = "normal_header"
    /\ OutputHeader2D("normal", NormalFormat(compression), "normal_loop")

\* surface.setImage(InputFormat_RGBA_32F, normal.width(), normal.height(), ...) with its
\* result ignored, then if (!compressor.compress(surface, 0, mip_level, ...)) return 1;
NormalCompress ==
    /\ pc = "normal_loop"
    /\ mip_level < total_mip_levels
    /\ \E packed \in BOOLEAN, okv \in BOOLEAN :
         LET repacked == IF packed
                           THEN [NullSurface EXCEPT !.w = normal.w, !.h = normal.h,
                                                    !.builds = normal.builds,
                                                    !.renorms = normal.renorms, !.src = "packed"]
                           ELSE surface
         IN /\ surface' = repacked
            /\ log' = log \o <<Ev("setImage", "normal", 0, mip_level, packed, normal.w, normal.h, 0, INVALID),
                               Ev("compress", "normal", 0, mip_level, okv, repacked.w, repacked.h, 0, INVALID)>>
            /\ IF ReturnsOnFailure(okv) THEN Return(1) ELSE pc' = "normal_build" /\ UNCHANGED result
    /\ UNCHANGED <<args, wrappers, data, normal, metalness_ambient_occlusion, options, total_mip_levels,
                   loopVars, gpuVars>>

\* normal.expandNormals(); normal.normalizeNormalMap(); normal.packNormals();
renormalize(s) == [s EXCEPT !.renorms = s.renorms + 1]

\* The body of `if (mip_level + 1 < total_mip_levels) { ... }` (lines 242-256).
NormalBuildNextMipmap ==
    /\ pc = "normal_build"
    /\ IF mip_level + 1 < total_mip_levels
         THEN \E ok1 \in BOOLEAN, ok2 \in BOOLEAN :
                LET e1 == Ev("normal.buildNextMipmap", "normal", 0, mip_level, ok1,
                             normal.w, normal.h, 0, INVALID)
                    e2 == Ev("metalness_ambient_occlusion.buildNextMipmap", "normal", 0, mip_level,
                             ok2, metalness_ambient_occlusion.w, metalness_ambient_occlusion.h,
                             0, INVALID)
                IN IF ReturnsOnFailure(ok1)
                     THEN /\ ok2
                          /\ log' = Append(log, e1)
                          /\ Return(1)
                          /\ UNCHANGED <<normal, metalness_ambient_occlusion, mip_level>>
                     ELSE /\ normal' = renormalize(buildNextMipmap(normal))
                          /\ log' = log \o <<e1, e2>>
                          /\ IF ReturnsOnFailure(ok2)
                               THEN Return(1) /\ UNCHANGED <<metalness_ambient_occlusion, mip_level>>
                               ELSE /\ metalness_ambient_occlusion' =
                                         buildNextMipmap(metalness_ambient_occlusion)
                                    /\ mip_level' = NextMipLevel(mip_level)
                                    /\ pc' = "normal_loop"
                                    /\ UNCHANGED result
         ELSE /\ mip_level' = NextMipLevel(mip_level)
              /\ pc' = "normal_loop"
              /\ UNCHANGED <<normal, metalness_ambient_occlusion, result, log>>
    /\ UNCHANGED <<args, wrappers, data, surface, options, total_mip_levels, side, mip_size, gpuVars>>

NormalReturn == pc = "normal_loop" /\ Return2D

\* ------------------------------------------------------- compile_parallax
ParallaxLoad == pc = "parallax_load" /\ Load2D("parallax", "parallax_validate")

ParallaxValidate ==
    /\ pc = "parallax_validate"
    /\ Validate2D("parallax", InvalidSizeParallax(data.width, data.height), "parallax_setImage")

\* No RGBA to BGRA swap in compile_parallax.
ParallaxSetImage == pc = "parallax_setImage" /\ SetImage2D("parallax", "RGBA", "parallax_header")

ParallaxOutputHeader ==
    /\ pc = "parallax_header"
    /\ OutputHeader2D("parallax", ParallaxFormat(compression), "parallax_loop")

ParallaxCompress == pc = "parallax_loop" /\ Compress2D("parallax", "parallax_build")

\* if (mip_level + 1 < total_mip_levels && !surface.buildNextMipmap(...)) { print only }
ParallaxBuildNextMipmap ==
    /\ pc = "parallax_build"
    /\ IF mip_level + 1 < total_mip_levels
         THEN \E okv \in BOOLEAN :
                /\ log' = Append(log, Ev("buildNextMipmap", "parallax", 0, mip_level, okv,
                                         surface.w, surface.h, 0, INVALID))
                /\ surface' = IF okv THEN buildNextMipmap(surface) ELSE surface
         ELSE UNCHANGED <<surface, log>>
    /\ mip_level' = NextMipLevel(mip_level)
    /\ pc' = "parallax_loop"
    /\ UNCHANGED <<args, wrappers, result, data, normal, metalness_ambient_occlusion, options,
                   total_mip_levels, side, mip_size, gpuVars>>

ParallaxReturn == pc = "parallax_loop" /\ Return2D

\* ------------------------------------------------------ compile_cube_map
output_size == args.output_size
irradiance_size == args.output_irradiance_size
prefilter_size == args.output_prefilter_size

\* Renderer types bgfx::getRendererType() reports in the model, and the
\* frame number readTexture promises: bgfx makes the result available a
\* backend-dependent number of frames after the current one.
RendererTypes == {"OpenGL", "Direct3D11"}

\* ---- bgfx handles and the locals that own them
\* The locals of compile_cube_map that hold bgfx handles, in declaration order.
Owners ==
    <<"texture", "vertex_buffer", "texture_uniform", "cube_side_textures",
      "cube_map_program_handle", "cube_map_frame_buffers", "cube_map_texture",
      "irradiance_textures", "irradiance_program_handle", "irradiance_frame_buffers",
      "prefilter_textures", "prefilter_program_handle", "settings_uniform",
      "prefilter_frame_buffers">>

\* Locals that are plain arrays indexed by side, of HandleWrapper or of vectors of
\* HandleWrapper: the elements are destroyed last side first.
Arrays == {"cube_side_textures", "irradiance_textures", "prefilter_textures"}

RECURSIVE LastSideFirst(_, _)
LastSideFirst(handles, s) ==
    IF s < 0 THEN <<>>
    ELSE SelectSeq(handles, LAMBDA r : r.face = s) \o LastSideFirst(handles, s - 1)

\* The local a created handle is stored in: a HandleWrapper, an array or vector of
\* HandleWrapper, or "raw" for a plain bgfx handle that nothing destroys by itself.
NoOwner(name) == "raw"
Owner(name) ==
    CASE name \in {"blit_texture", "vertex_shader", "fragment_shader"} -> "raw"
      [] name = "cube_side_texture" -> "cube_side_textures"
      [] name = "irradiance_texture" -> "irradiance_textures"
      [] name = "prefilter_texture" -> "prefilter_textures"
      [] OTHER -> name

Programs == {"cube_map_program_handle", "irradiance_program_handle", "prefilter_program_handle"}

Handle(e) == [name |-> e.c, face |-> e.face, mip |-> e.mip, owner |-> Owner(e.c)]

\* bgfx::destroy(handle): position in t.live of the handle the event names, 0 if none.
RECURSIVE Find(_, _, _)
Find(l, e, i) ==
    IF i = 0 THEN 0
    ELSE IF l[i].name = e.c /\ l[i].face = e.face /\ l[i].mip = e.mip THEN i
    ELSE Find(l, e, i - 1)

Without(l, i) == [k \in 1 .. (Len(l) - 1) |-> IF k < i THEN l[k] ELSE l[k + 1]]

\* ~HandleWrapper of every element of the local `owner`: isValid, then bgfx::destroy.
Release(t, owner) ==
    LET mine == SelectSeq(t.live, LAMBDA r : r.owner = owner)
    IN [live |-> SelectSeq(t.live, LAMBDA r : r.owner # owner),
        destroyed |-> t.destroyed \o (IF owner \in Arrays THEN LastSideFirst(mine, CUBE_SIDES - 1) ELSE mine)]

\* The effect of one logged call on the handles.
TrackOne(t, e) ==
    CASE e.op = "create" /\ e.ok /\ e.c \in Programs ->
           \* createProgram(vertex, fragment, true): the program owns both shaders.
           [t EXCEPT !.live =
              Append([i \in DOMAIN t.live |->
                        IF t.live[i].owner = "raw" /\ t.live[i].name \in {"vertex_shader", "fragment_shader"}
                          THEN [t.live[i] EXCEPT !.owner = e.c]
                          ELSE t.live[i]],
                     Handle(e))]
      [] e.op = "create" /\ e.ok /\ e.c \notin Programs ->
           [t EXCEPT !.live = Append(t.live, Handle(e))]
      [] e.op = "destroy" ->
           LET i == Find(t.live, e, Len(t.live))
           IN IF i = 0 THEN [t EXCEPT !.destroyed = Append(t.destroyed, Handle(e))]
              ELSE [live |-> Without(t.live, i), destroyed |-> Append(t.destroyed, t.live[i])]
      [] e.op = "clear" -> Release(t, e.c)
      [] OTHER -> t

RECURSIVE Track(_, _, _)
Track(t, events, i) ==
    IF i > Len(events) THEN t ELSE Track(TrackOne(t, events[i]), events, i + 1)

\* The destructors of the locals at a return, last declared first.
RECURSIVE Destructors(_, _)
Destructors(t, i) == IF i = 0 THEN t ELSE Destructors(Release(t, Owners[i]), i - 1)

\* live and destroyed after a step of compile_cube_map: the calls the step logged, and the
\* destructors if the step returned.
TrackHandles ==
    LET t == Track([live |-> live, destroyed |-> destroyed],
                   SubSeq(log', Len(log) + 1, Len(log')), 1)
        u == IF pc' = "done" THEN Destructors(t, Len(Owners)) ELSE t
    IN /\ live' = u.live
       /\ destroyed' = u.destroyed

\* std::vector<HandleWrapper<...>>::clear()
Clear(vector) == Ev("clear", vector, INVALID, INVALID, TRUE, 0, 0, 0, INVALID)

\* The vector the frame buffer of a pass is emplaced into.
FrameBuffersOf(stage) ==
    CASE stage \in {"capture", "cube_map"} -> "cube_map_frame_buffers"
      [] stage = "irradiance" -> "irradiance_frame_buffers"
      [] stage = "prefilter" -> "prefilter_frame_buffers"

\* bgfx::destroy(blit_texture) after the wait loop.
KeepsBlitTexture(face, mip) == <<>>
DestroyBlitTexture(face, mip) ==
    <<Ev("destroy", "blit_texture", face, mip, TRUE, 0, 0, 0, INVALID)>>

\* A call whose failure ends the function: `x = create(...); if (!isValid(x)) return 1;`
Create(name, face, mip, next) ==
    \E okv \in BOOLEAN :
      /\ log' = Append(log, Ev("create", name, face, mip, okv, 0, 0, 0, INVALID))
      /\ IF ReturnsOnFailure(okv) THEN Return(1) ELSE pc' = next /\ UNCHANGED result

\* SdlWrapper, WindowWrapper, SDL_GetWindowWMInfo, BgfxWrapper (lines 567-606).
CubeBootstrap ==
    /\ pc = "cube_bootstrap"
    /\ \E failed \in {"sdl", "window", "wm_info", "bgfx", "none"} :
         /\ log' = Append(log, Ev("init", failed, INVALID, INVALID, failed = "none", 0, 0, 0, INVALID))
         /\ IF failed # "none"
              THEN Return(1) /\ UNCHANGED backend
              ELSE /\ pc' = "cube_load"
                   /\ backend' \in [renderer_type : RendererTypes, latency : {1, MaxDelay}]
                   /\ UNCHANGED result
    /\ UNCHANGED <<args, wrappers, data, codecVars, loopVars, current_view, frameVars,
                   cube_map_view_matrices, rendered, data_to_save>>
    /\ TrackHandles

\* HdrWrapper data(input); if (data.data == nullptr) return 1;
CubeLoad ==
    /\ pc = "cube_load"
    /\ \E loaded \in BOOLEAN, w \in HdrDims, h \in HdrDims :
         /\ loaded \/ (w = 0 /\ h = 0)
         /\ data' = [loaded |-> loaded, width |-> w, height |-> h, order |-> "RGBA"]
         /\ log' = Append(log, Ev("load", "cube", INVALID, INVALID, loaded, w, h, 0, INVALID))
         /\ IF loaded THEN pc' = "cube_validate" /\ UNCHANGED result ELSE Return(1)
    /\ UNCHANGED <<args, wrappers, codecVars, loopVars, renderVars>>
    /\ TrackHandles

\* The size check of compile_cube_map (line 614): no power-of-two test.
InvalidSizeCubeNoUpperLimit(w, h) == w <= 0 \/ h <= 0
InvalidSizeCube(w, h) == w <= 0 \/ h <= 0 \/ w > 65535 \/ h > 65535

CubeValidate ==
    /\ pc = "cube_validate"
    /\ Validate2D("cube", InvalidSizeCube(data.width, data.height), "cube_texture")

\* texture = bgfx::createTexture2D(width, height, ..., makeRef(data.data, ...))
CubeCreateTexture ==
    /\ pc = "cube_texture"
    /\ Create("texture", INVALID, INVALID, "cube_vertex_buffer")
    /\ UNCHANGED <<args, wrappers, data, codecVars, loopVars, renderVars>>
    /\ TrackHandles

\* vertex_buffer, then the view table by renderer type (lines 626-640).
CubeCreateVertexBuffer ==
    /\ pc = "cube_vertex_buffer"
    /\ Create("vertex_buffer", INVALID, INVALID, "cube_texture_uniform")
    /\ cube_map_view_matrices' =
         IF pc' = "done" THEN cube_map_view_matrices
         ELSE IF backend.renderer_type = "OpenGL" \/ backend.renderer_type = "OpenGLES"
                THEN "CUBE_MAP_VIEWS_GLSL"
                ELSE "CUBE_MAP_VIEWS"
    /\ UNCHANGED <<args, wrappers, data, codecVars, loopVars, current_view, frameVars, backend, rendered,
                   data_to_save>>
    /\ TrackHandles

CubeCreateTextureUniform ==
    /\ pc = "cube_texture_uniform"
    /\ Create("texture_uniform", INVALID, INVALID, "cube_side_textures")
    /\ side' = 0
    /\ UNCHANGED <<args, wrappers, data, codecVars, mip_level, mip_size, renderVars>>
    /\ TrackHandles

\* One iteration of a `for (side = 0; side < 6; side++)` loop that creates a texture.
CreateSideTexture(name, here, next) ==
    /\ Create(name, side, 0, IF side + 1 < CUBE_SIDES THEN here ELSE next)
    /\ side' = IF pc' = here THEN side + 1 ELSE IF pc' = next THEN 0 ELSE side

CubeCreateSideTexture ==
    /\ pc = "cube_side_textures"
    /\ CreateSideTexture("cube_side_texture", "cube_side_textures", "cube_map_program")
    /\ UNCHANGED <<args, wrappers, data, codecVars, mip_level, mip_size, renderVars>>
    /\ TrackHandles

\* createEmbeddedShader x 2 and createProgram(vertex, fragment, true), with the manual
\* bgfx::destroy calls of the failure branches.
CreateProgram(name, next) ==
    \E failed \in {"vertex_shader", "fragment_shader", "program", "none"} :
      LET mk(what, okv) == Ev("create", what, INVALID, INVALID, okv, 0, 0, 0, INVALID)
          rm(what) == Ev("destroy", what, INVALID, INVALID, TRUE, 0, 0, 0, INVALID)
      IN /\ log' = log \o
              CASE failed = "vertex_shader" -> <<mk("vertex_shader", FALSE)>>
                [] failed = "fragment_shader" ->
                     <<mk("vertex_shader", TRUE), mk("fragment_shader", FALSE), rm("vertex_shader")>>
                [] failed = "program" ->
                     <<mk("vertex_shader", TRUE), mk("fragment_shader", TRUE), mk(name, FALSE),
                       rm("fragment_shader"), rm("vertex_shader")>>
                [] failed = "none" ->
                     <<mk("vertex_shader", TRUE), mk("fragment_shader", TRUE), mk(name, TRUE)>>
         /\ IF failed # "none" THEN Return(1) ELSE pc' = next /\ UNCHANGED result

CubeCreateProgram ==
    /\ pc = "cube_map_program"
    /\ CreateProgram("cube_map_program_handle", "capture")
    /\ UNCHANGED <<args, wrappers, data, codecVars, loopVars, renderVars>>
    /\ TrackHandles

\* cube_map_view_matrices[side]
FlippedViewMatrixIndex(s) == 5 - s
ViewMatrixIndex(s) == s

\* One render pass: createFrameBuffer, view setup, setTexture, submit(current_view, program).
\* key names the render target; sampled is the texture bound as input.
Pass(stage, key, size, sampled) ==
    \E okv \in BOOLEAN :
      /\ IF ReturnsOnFailure(okv)
           THEN /\ log' = Append(log, Ev("create", FrameBuffersOf(stage), key[2], key[3], FALSE, 0, 0, 0, INVALID))
                /\ Return(1)
                /\ UNCHANGED rendered
           ELSE /\ log' = log \o
                     <<Ev("create", FrameBuffersOf(stage), key[2], key[3], TRUE, 0, 0, 0, INVALID),
                       Ev("submit", stage, key[2], key[3], TRUE, size, size, current_view,
                          ViewMatrixIndex(key[2]))>>
                /\ rendered' = (key :> [view |-> current_view, matrix |-> ViewMatrixIndex(key[2]),
                                        size |-> size, sampled |-> sampled,
                                        frame |-> frames]) @@ rendered
                /\ UNCHANGED result

\* What follows the capture loop: the base container (lines 711-745).
AfterCaptureSkipsBase == "cube_map_texture"
AfterCapture == "base_header"

\* Cube map sides to read back from (lines 687-709).
CubeCapturePass ==
    /\ pc = "capture"
    /\ Pass("capture", <<"cube_side_textures", side, 0>>, output_size, "texture")
    /\ IF result' = 1
         THEN UNCHANGED <<side, current_view>>
         ELSE /\ current_view' = current_view + 1
              /\ side' = IF side + 1 < CUBE_SIDES THEN side + 1 ELSE 0
              /\ pc' = IF side + 1 < CUBE_SIDES THEN "capture" ELSE AfterCapture
    /\ UNCHANGED <<args, wrappers, data, codecVars, mip_level, mip_size, frameVars, backend,
                   cube_map_view_matrices, data_to_save>>
    /\ TrackHandles

\* switch (compression) for the base cube map (lines 718-733).
CubeMapFormatAlwaysBC6(c) ==
    CASE c \in {"GOOD_BUT_SLOW", "POOR_BUT_FAST"} -> [format |-> Format_BC6, pixel |-> PixelDefault]
      [] c = "NO_COMPRESSION" -> [format |-> Format_RGB, pixel |-> PixelRGBA16F]
CubeMapFormat(c) ==
    CASE c = "GOOD_BUT_SLOW" -> [format |-> Format_BC6, pixel |-> PixelDefault]
      [] c = "POOR_BUT_FAST" -> [format |-> Format_BC3, pixel |-> PixelDefault]
      [] c = "NO_COMPRESSION" -> [format |-> Format_RGB, pixel |-> PixelRGBA16F]

\* The irradiance options (lines 902-906) do not read `compression`.
IrradianceFormat(c) == [format |-> Format_RGB, pixel |-> PixelRGBA16F]

\* switch (compression) for the prefilter cube map (lines 1045-1058).
PrefilterFormat(c) ==
    CASE c \in {"GOOD_BUT_SLOW", "POOR_BUT_FAST"} -> [format |-> Format_BC6, pixel |-> PixelDefault]
      [] c = "NO_COMPRESSION" -> [format |-> Format_RGBA, pixel |-> PixelRGBA16F]

\* outputHeader(TextureType_Cube, size, size, 1, 1, mips, false, ...) of one container.
OutputHeaderCube(c, fmt, size, mips, next) ==
    /\ options' = fmt
    /\ total_mip_levels' = mips
    /\ \E okv \in BOOLEAN :
         /\ log' = Append(log, Ev("outputHeader", c, CUBE_SIDES, INVALID, okv, size, size, mips, fmt))
         /\ IF ReturnsOnFailure(okv) THEN Return(1) ELSE pc' = next /\ UNCHANGED result

\* The view id given to bgfx::blit.
FirstView(view) == 0
ViewOfBlit(view) == view

\* createTexture2D(blit), blit(current_view, blit_texture, target), readTexture -> frame_id.
ReadBack(c, key, size, next) ==
    \E okv \in BOOLEAN :
      LET delay == backend.latency IN
      IF ReturnsOnFailure(okv)
        THEN /\ log' = Append(log, Ev("create", "blit_texture", key[2], key[3], FALSE, 0, 0, 0, INVALID))
             /\ Return(1)
             /\ UNCHANGED <<frame_id, current_frame_id, data_to_save>>
        ELSE /\ log' = log \o
                  <<Ev("create", "blit_texture", key[2], key[3], TRUE, 0, 0, 0, INVALID),
                    Ev("blit", c, key[2], key[3], TRUE, size, size, ViewOfBlit(current_view),
                       rendered[key].matrix),
                    Ev("readTexture", c, key[2], key[3], TRUE, size, size, frames + delay, INVALID)>>
             /\ frame_id' = frames + delay
             /\ current_frame_id' = INVALID
             /\ data_to_save' = [src |-> key, size |-> size, matrix |-> rendered[key].matrix,
                                 token |-> frames + delay]
             /\ pc' = next
             /\ UNCHANGED result

\* The condition of `do { current_frame_id = bgfx::frame(); } while (current_frame_id < frame_id);`
WaitsOnlyOneFrame(current, token) == FALSE
WaitsUntilPast(current, token) == current <= token
WaitsAgain(current, token) == current < token

\* One iteration of the wait loop.
WaitFrame(here, next) ==
    /\ frames' = frames + 1
    /\ current_frame_id' = frames + 1
    /\ pc' = IF WaitsAgain(frames + 1, frame_id) THEN here ELSE next
    /\ UNCHANGED <<args, wrappers, result, data, codecVars, loopVars, current_view, frame_id, backend,
                   cube_map_view_matrices, rendered, data_to_save, log>>

\* bgfx::destroy(blit_texture); surface.setImage(InputFormat_RGBA_16F, size, size, 1, data_to_save)
SetImageReadBack(c, size, next) ==
    \E okv \in BOOLEAN :
      /\ log' = log \o DestroyBlitTexture(data_to_save.src[2], data_to_save.src[3]) \o
           <<Ev("setImage", c, data_to_save.src[2], data_to_save.src[3], okv, size, size,
                data_to_save.token, current_frame_id)>>
      /\ IF ReturnsOnFailure(okv)
           THEN Return(1) /\ UNCHANGED surface
           ELSE /\ surface' = [NullSurface EXCEPT !.w = size, !.h = size, !.src = data_to_save.src[1],
                                                  !.matrix = data_to_save.matrix]
                /\ pc' = next
                /\ UNCHANGED result

\* if (!compressor.compress(surface, side, mip_level, ...)) return 1;
CompressCube(c, next) ==
    \E okv \in BOOLEAN :
      /\ log' = Append(log, Ev("compress", c, side, mip_level, okv, surface.w, surface.h, 0, surface.matrix))
      /\ IF ReturnsOnFailure(okv) THEN Return(1) ELSE pc' = next /\ UNCHANGED result

\* ---- base cube map: header, then per side read back and compress (lines 741-792)
BaseOutputHeader ==
    /\ pc = "base_header"
    /\ OutputHeaderCube("base", CubeMapFormat(compression), output_size,
                        count_mip_maps(output_size), "base_read_back")
    /\ side' = 0
    /\ UNCHANGED <<args, wrappers, data, surface, normal, metalness_ambient_occlusion, mip_level, mip_size,
                   renderVars>>
    /\ TrackHandles

BaseReadBack ==
    /\ pc = "base_read_back"
    /\ ReadBack("base", <<"cube_side_textures", side, 0>>, output_size, "base_wait")
    /\ UNCHANGED <<args, wrappers, data, codecVars, loopVars, current_view, frames, backend,
                   cube_map_view_matrices, rendered>>
    /\ TrackHandles

BaseWait ==
    /\ pc = "base_wait"
    /\ WaitFrame("base_wait", "base_setImage")
    /\ TrackHandles

BaseSetImage ==
    /\ pc = "base_setImage"
    /\ SetImageReadBack("base", output_size, "base_compress")
    /\ mip_level' = 0
    /\ UNCHANGED <<args, wrappers, data, normal, metalness_ambient_occlusion, options, total_mip_levels,
                   side, mip_size, renderVars>>
    /\ TrackHandles

BaseCompress ==
    /\ pc = "base_compress"
    /\ mip_level < total_mip_levels
    /\ CompressCube("base", "base_build")
    /\ UNCHANGED <<args, wrappers, data, codecVars, loopVars, renderVars>>
    /\ TrackHandles

\* if (mip_level + 1 < total_mip_levels) { if (!surface.buildNextMipmap(...)) return 1; }
BaseBuildNextMipmap ==
    /\ pc = "base_build"
    /\ IF mip_level + 1 < total_mip_levels
         THEN \E okv \in BOOLEAN :
                /\ log' = Append(log, Ev("buildNextMipmap", "base", side, mip_level, okv,
                                         surface.w, surface.h, 0, surface.matrix))
                /\ IF ReturnsOnFailure(okv)
                     THEN Return(1) /\ UNCHANGED <<surface, mip_level>>
                     ELSE /\ surface' = buildNextMipmap(surface)
                          /\ mip_level' = NextMipLevel(mip_level)
                          /\ pc' = "base_compress"
                          /\ UNCHANGED result
         ELSE /\ mip_level' = NextMipLevel(mip_level)
              /\ pc' = "base_compress"
              /\ UNCHANGED <<surface, result, log>>
    /\ UNCHANGED <<args, wrappers, data, normal, metalness_ambient_occlusion, options, total_mip_levels,
                   side, mip_size, renderVars>>
    /\ TrackHandles

\* The mip loop ends: side++, current_view++ and the next side, or on to the cube texture.
BaseNextSide ==
    /\ pc = "base_compress"
    /\ ~(mip_level < total_mip_levels)
    /\ current_view' = current_view + 1
    /\ side' = IF side + 1 < CUBE_SIDES THEN side + 1 ELSE 0
    /\ pc' = IF side + 1 < CUBE_SIDES THEN "base_read_back" ELSE "cube_map_texture"
    /\ UNCHANGED <<args, wrappers, result, data, codecVars, mip_level, mip_size, frameVars, backend,
                   cube_map_view_matrices, rendered, data_to_save, log>>
    /\ TrackHandles

\* ---- the cube-structured texture and its faces x mips passes (lines 798-834)
\* cube_map_frame_buffers.clear(); cube_map_texture = createTextureCube(...)
CubeCreateCubeMapTexture ==
    /\ pc = "cube_map_texture"
    /\ \E okv \in BOOLEAN :
         /\ log' = log \o <<Clear("cube_map_frame_buffers"),
                            Ev("create", "cube_map_texture", INVALID, INVALID, okv, 0, 0, 0, INVALID)>>
         /\ IF ReturnsOnFailure(okv) THEN Return(1) ELSE pc' = "cube_map_pass" /\ UNCHANGED result
    /\ side' = 0
    /\ mip_level' = 0
    /\ mip_size' = output_size
    /\ UNCHANGED <<args, wrappers, data, codecVars, renderVars>>
    /\ TrackHandles

\* The increments of `for (side ...) for (size = first, mip_level = 0; size >= 1;
\* size /= 2, mip_level++ [, current_view++])` after one body: the position to go on from.
NextInMipLoop(first) ==
    IF mip_size \div 2 >= 1
      THEN [side |-> side, mip_size |-> mip_size \div 2, mip_level |-> mip_level + 1, done |-> FALSE]
      ELSE IF side + 1 < CUBE_SIDES
             THEN [side |-> side + 1, mip_size |-> first, mip_level |-> 0, done |-> FALSE]
             ELSE [side |-> 0, mip_size |-> first, mip_level |-> 0, done |-> TRUE]

\* Number of bodies `for (mip_size = size; mip_size >= 1; mip_size /= 2)` runs.
RECURSIVE HalvingLoopPasses(_)
HalvingLoopPasses(size) == IF size >= 1 THEN 1 + HalvingLoopPasses(size \div 2) ELSE 0

Advance(first, here, next) ==
    LET n == NextInMipLoop(first)
    IN /\ side' = n.side
       /\ mip_size' = n.mip_size
       /\ mip_level' = n.mip_level
       /\ pc' = IF n.done THEN next ELSE here

CubeMapPass ==
    /\ pc = "cube_map_pass"
    /\ Pass("cube_map", <<"cube_map_texture", side, mip_level>>, mip_size, "texture")
    /\ IF result' = 1
         THEN UNCHANGED <<loopVars, current_view>>
         ELSE /\ current_view' = current_view + 1
              /\ Advance(output_size, "cube_map_pass", "irradiance_textures")
    /\ UNCHANGED <<args, wrappers, data, codecVars, frameVars, backend, cube_map_view_matrices, data_to_save>>
    /\ TrackHandles

\* ---- irradiance (lines 836-961)
IrradianceCreateTexture ==
    /\ pc = "irradiance_textures"
    /\ CreateSideTexture("irradiance_texture", "irradiance_textures", "irradiance_program")
    /\ UNCHANGED <<args, wrappers, data, codecVars, mip_level, mip_size, renderVars>>
    /\ TrackHandles

IrradianceCreateProgram ==
    /\ pc = "irradiance_program"
    /\ CreateProgram("irradiance_program_handle", "irradiance_pass")
    /\ UNCHANGED <<args, wrappers, data, codecVars, loopVars, renderVars>>
    /\ TrackHandles

IrradiancePass ==
    /\ pc = "irradiance_pass"
    /\ Pass("irradiance", <<"irradiance_textures", side, 0>>, irradiance_size, "cube_map_texture")
    /\ IF result' = 1
         THEN UNCHANGED <<side, current_view>>
         ELSE /\ current_view' = current_view + 1
              /\ side' = IF side + 1 < CUBE_SIDES THEN side + 1 ELSE 0
              /\ pc' = IF side + 1 < CUBE_SIDES THEN "irradiance_pass" ELSE "irradiance_header"
    /\ UNCHANGED <<args, wrappers, data, codecVars, mip_level, mip_size, frameVars, backend,
                   cube_map_view_matrices, data_to_save>>
    /\ TrackHandles

IrradianceOutputHeader ==
    /\ pc = "irradiance_header"
    /\ OutputHeaderCube("irradiance", IrradianceFormat(compression), irradiance_size, 1,
                        "irradiance_read_back")
    /\ side' = 0
    /\ UNCHANGED <<args, wrappers, data, surface, normal, metalness_ambient_occlusion, mip_level, mip_size,
                   renderVars>>
    /\ TrackHandles

IrradianceReadBack ==
    /\ pc = "irradiance_read_back"
    /\ ReadBack("irradiance", <<"irradiance_textures", side, 0>>, irradiance_size, "irradiance_wait")
    /\ UNCHANGED <<args, wrappers, data, codecVars, loopVars, current_view, frames, backend,
                   cube_map_view_matrices, rendered>>
    /\ TrackHandles

IrradianceWait ==
    /\ pc = "irradiance_wait"
    /\ WaitFrame("irradiance_wait", "irradiance_setImage")
    /\ TrackHandles

IrradianceSetImage ==
    /\ pc = "irradiance_setImage"
    /\ SetImageReadBack("irradiance", irradiance_size, "irradiance_compress")
    /\ mip_level' = 0
    /\ UNCHANGED <<args, wrappers, data, normal, metalness_ambient_occlusion, options, total_mip_levels,
                   side, mip_size, renderVars>>
    /\ TrackHandles

\* compress(surface, side, 0, ...), then side++, current_view++.
IrradianceCompress ==
    /\ pc = "irradiance_compress"
    /\ CompressCube("irradiance", IF side + 1 < CUBE_SIDES THEN "irradiance_read_back"
                                                           ELSE "prefilter_textures")
    /\ IF result' = 1
         THEN UNCHANGED <<loopVars, current_view>>
         ELSE /\ current_view' = current_view + 1
              /\ side' = IF side + 1 < CUBE_SIDES THEN side + 1 ELSE 0
              /\ mip_level' = 0
              /\ mip_size' = IF side + 1 < CUBE_SIDES THEN mip_size ELSE prefilter_size
    /\ UNCHANGED <<args, wrappers, data, codecVars, frameVars, backend, cube_map_view_matrices, rendered,
                   data_to_save>>
    /\ TrackHandles

\* ---- prefilter (lines 961-1116)
\* irradiance_frame_buffers.clear() before the first, then one mip_texture of
\* prefilter_textures[side] (lines 961-977).
PrefilterCreateTexture ==
    /\ pc = "prefilter_textures"
    /\ \E okv \in BOOLEAN :
         /\ log' = log \o (IF side = 0 /\ mip_level = 0
                               THEN <<Clear("irradiance_frame_buffers")>> ELSE <<>>)
                       \o <<Ev("create", "prefilter_texture", side, mip_level, okv, mip_size,
                               mip_size, 0, INVALID)>>
         /\ IF ReturnsOnFailure(okv)
              THEN Return(1) /\ UNCHANGED loopVars
              ELSE Advance(prefilter_size, "prefilter_textures", "prefilter_program") /\ UNCHANGED result
    /\ UNCHANGED <<args, wrappers, data, codecVars, renderVars>>
    /\ TrackHandles

PrefilterCreateProgram ==
    /\ pc = "prefilter_program"
    /\ CreateProgram("prefilter_program_handle", "prefilter_settings_uniform")
    /\ UNCHANGED <<args, wrappers, data, codecVars, loopVars, renderVars>>
    /\ TrackHandles

PrefilterCreateSettingsUniform ==
    /\ pc = "prefilter_settings_uniform"
    /\ Create("settings_uniform", INVALID, INVALID, "prefilter_pass")
    /\ UNCHANGED <<args, wrappers, data, codecVars, loopVars, renderVars>>
    /\ TrackHandles

MAX_MIP_LEVELS == 4
Min(a, b) == IF a <= b THEN a ELSE b

\* settings[0] as the fraction numerator / MAX_MIP_LEVELS, and settings[1].
SettingsUncapped(mip, base_size) ==
    [roughness_numerator |-> mip, roughness_denominator |-> MAX_MIP_LEVELS,
     resolution |-> base_size]
Settings(mip, base_size) ==
    [roughness_numerator |-> Min(mip, MAX_MIP_LEVELS), roughness_denominator |-> MAX_MIP_LEVELS,
     resolution |-> base_size]

\* One prefilter pass with its setUniform(settings_uniform, settings) (lines 1010-1038).
PrefilterPass ==
    /\ pc = "prefilter_pass"
    /\ \E okv \in BOOLEAN :
         LET key == <<"prefilter_textures", side, mip_level>>
             st == Settings(mip_level, output_size)
         IN IF ReturnsOnFailure(okv)
              THEN /\ log' = Append(log, Ev("create", FrameBuffersOf("prefilter"), side, mip_level, FALSE, 0, 0, 0, INVALID))
                   /\ Return(1)
                   /\ UNCHANGED <<rendered, loopVars, current_view>>
              ELSE /\ log' = log \o
                        <<Ev("create", FrameBuffersOf("prefilter"), side, mip_level, TRUE, 0, 0, 0, INVALID),
                          Ev("setUniform", "prefilter", side, mip_level, TRUE, st.roughness_numerator,
                             st.roughness_denominator, st.resolution, INVALID),
                          Ev("submit", "prefilter", side, mip_level, TRUE, mip_size, mip_size,
                             current_view, ViewMatrixIndex(side))>>
                   /\ rendered' = (key :> [view |-> current_view, matrix |-> ViewMatrixIndex(side),
                                           size |-> mip_size, sampled |-> "cube_map_texture",
                                           frame |-> frames]) @@ rendered
                   /\ current_view' = current_view + 1
                   /\ Advance(prefilter_size, "prefilter_pass", "prefilter_header")
                   /\ UNCHANGED result
    /\ UNCHANGED <<args, wrappers, data, codecVars, frameVars, backend, cube_map_view_matrices, data_to_save>>
    /\ TrackHandles

PrefilterOutputHeader ==
    /\ pc = "prefilter_header"
    /\ OutputHeaderCube("prefilter", PrefilterFormat(compression), prefilter_size,
                        count_mip_maps(prefilter_size), "prefilter_read_back")
    /\ UNCHANGED <<args, wrappers, data, surface, normal, metalness_ambient_occlusion, loopVars, renderVars>>
    /\ TrackHandles

PrefilterReadBack ==
    /\ pc = "prefilter_read_back"
    /\ ReadBack("prefilter", <<"prefilter_textures", side, mip_level>>, mip_size, "prefilter_wait")
    /\ UNCHANGED <<args, wrappers, data, codecVars, loopVars, current_view, frames, backend,
                   cube_map_view_matrices, rendered>>
    /\ TrackHandles

PrefilterWait ==
    /\ pc = "prefilter_wait"
    /\ WaitFrame("prefilter_wait", "prefilter_setImage")
    /\ TrackHandles

PrefilterSetImage ==
    /\ pc = "prefilter_setImage"
    /\ SetImageReadBack("prefilter", mip_size, "prefilter_compress")
    /\ UNCHANGED <<args, wrappers, data, normal, metalness_ambient_occlusion, options, total_mip_levels,
                   loopVars, renderVars>>
    /\ TrackHandles

\* compress(surface, side, mip_level, ...), then the loop increments.
PrefilterCompress ==
    /\ pc = "prefilter_compress"
    /\ \E okv \in BOOLEAN :
         /\ log' = Append(log, Ev("compress", "prefilter", side, mip_level, okv, surface.w, surface.h,
                                  0, surface.matrix))
         /\ IF ReturnsOnFailure(okv)
              THEN Return(1) /\ UNCHANGED <<loopVars, current_view>>
              ELSE /\ current_view' = current_view + 1
                   /\ Advance(prefilter_size, "prefilter_read_back", "cube_return")
                   /\ UNCHANGED result
    /\ UNCHANGED <<args, wrappers, data, codecVars, frameVars, backend, cube_map_view_matrices, rendered,
                   data_to_save>>
    /\ TrackHandles

CubeReturn ==
    /\ pc = "cube_return"
    /\ Return(0)
    /\ UNCHANGED <<args, wrappers, data, codecVars, loopVars, renderVars, log>>
    /\ TrackHandles

Next ==
    \/ Main
    \/ AlbedoLoad \/ AlbedoValidate \/ AlbedoSetImage \/ AlbedoOutputHeader
    \/ AlbedoCompress \/ AlbedoBuildNextMipmap \/ AlbedoReturn
    \/ NormalLoad \/ NormalValidate \/ NormalSetImage \/ NormalSetNormal
    \/ NormalSetMetalnessAmbientOcclusion \/ NormalOutputHeader \/ NormalCompress
    \/ NormalBuildNextMipmap \/ NormalReturn
    \/ ParallaxLoad \/ ParallaxValidate \/ ParallaxSetImage \/ ParallaxOutputHeader
    \/ ParallaxCompress \/ ParallaxBuildNextMipmap \/ ParallaxReturn
    \/ CubeBootstrap \/ CubeLoad \/ CubeValidate \/ CubeCreateTexture \/ CubeCreateVertexBuffer
    \/ CubeCreateTextureUniform \/ CubeCreateSideTexture \/ CubeCreateProgram \/ CubeCapturePass
    \/ BaseOutputHeader \/ BaseReadBack \/ BaseWait \/ BaseSetImage \/ BaseCompress
    \/ BaseBuildNextMipmap \/ BaseNextSide
    \/ CubeCreateCubeMapTexture \/ CubeMapPass
    \/ IrradianceCreateTexture \/ IrradianceCreateProgram \/ IrradiancePass
    \/ IrradianceOutputHeader \/ IrradianceReadBack \/ IrradianceWait \/ IrradianceSetImage
    \/ IrradianceCompress
    \/ PrefilterCreateTexture \/ PrefilterCreateProgram \/ PrefilterCreateSettingsUniform
    \/ PrefilterPass \/ PrefilterOutputHeader \/ PrefilterReadBack \/ PrefilterWait
    \/ PrefilterSetImage \/ PrefilterCompress \/ CubeReturn

Spec == Init /\ [][Next]_vars

\* ------------------------------------------- count_mip_maps, statement by statement
\* The function of lines 554-561 run as a loop: args.output_size is the argument (the
\* call of line 741), mip_size the local `size`, total_mip_levels the local `result`
\* and, after the return, the value returned.
RECURSIVE PowersOfTwo(_)
PowersOfTwo(k) == IF k = 0 THEN {1} ELSE {2 * x : x \in PowersOfTwo(k - 1)} \cup {1}
CountSizes == (0 .. MaxCountSize) \cup PowersOfTwo(16) \cup {MAX_TEXTURE_SIZE}

\* int result = 1;
InitCountMipMaps ==
    /\ args \in {[DefaultArgs EXCEPT !.output_size = n] : n \in CountSizes}
    /\ pc = "count_mip_maps"
    /\ result = INVALID
    /\ data = NoData
    /\ surface = NullSurface
    /\ normal = NullSurface
    /\ metalness_ambient_occlusion = NullSurface
    /\ options = NoOptions
    /\ total_mip_levels = 1
    /\ mip_level = 0
    /\ side = 0
    /\ mip_size = args.output_size
    /\ current_view = 0
    /\ frames = 0
    /\ frame_id = INVALID
    /\ current_frame_id = INVALID
    /\ backend = NoBackend
    /\ cube_map_view_matrices = "unset"
    /\ rendered = <<>>
    /\ data_to_save = NoBuffer
    /\ live = <<>>
    /\ destroyed = <<>>
    /\ wrappers = <<>>
    /\ log = <<>>

\* while (size > 1)
CountsOneMoreLevel(size) == size >= 1
CountMipMapsContinues(size) == size > 1

\* { size /= 2; result++; }
CountMipMapsStep ==
    /\ pc = "count_mip_maps"
    /\ CountMipMapsContinues(mip_size)
    /\ mip_size' = mip_size \div 2
    /\ total_mip_levels' = total_mip_levels + 1
    /\ UNCHANGED <<args, wrappers, pc, result, data, surface, normal, metalness_ambient_occlusion,
                   options, mip_level, side, gpuVars, log>>

\* return result;
CountMipMapsReturn ==
    /\ pc = "count_mip_maps"
    /\ ~CountMipMapsContinues(mip_size)
    /\ pc' = "count_mip_maps_return"
    /\ UNCHANGED <<args, wrappers, result, data, codecVars, loopVars, gpuVars, log>>

NextCountMipMaps == CountMipMapsStep \/ CountMipMapsReturn

\* Sequential code: a statement that can run does run.
SpecCountMipMaps ==
    /\ InitCountMipMaps
    /\ [][NextCountMipMaps]_vars
    /\ WF_vars(CountMipMapsStep)
    /\ WF_vars(CountMipMapsReturn)

\* ------------------------------------- blue normal channel, lines 160-175
\* One pixel of the BGRA_8UB image set at line 155. A channel value is kept as the byte
\* b that stands for the float b / BYTE_MAX, so red * 2 - 1 is (2 b - BYTE_MAX) / BYTE_MAX
\* and dot is an integer over BYTE_MAX^2. A blue value is kept as its radicand q:
\* sqrt(q) / unit * 0.5 + 0.5, which is 0.5 for q = 0 and 1.0 for q = unit^2. The sum of
\* two odd squares is never BYTE_MAX^2, and the nearest byte pixel is 1 / BYTE_MAX^2 away
\* from dot = 1, far more than the rounding of the float operations, so the comparison
\* of line 169 decides in floats as it does here.
BYTE_MAX == 255
Bytes == 0 .. BYTE_MAX

InitReconstruct ==
    /\ args = [DefaultArgs EXCEPT !.classes = {"normal"}]
    /\ pc = "normal_normal"
    /\ result = INVALID
    /\ data = [NoData EXCEPT !.loaded = TRUE, !.width = 1, !.height = 1, !.order = "BGRA"]
    /\ surface \in {[w |-> 1, h |-> 1, red |-> <<r>>, green |-> <<g>>] : r \in Bytes, g \in Bytes}
    /\ normal = NullSurface
    /\ metalness_ambient_occlusion = NullSurface
    /\ options = NoOptions
    /\ total_mip_levels = 1
    /\ mip_level = 0
    /\ side = 0
    /\ mip_size = 0
    /\ current_view = 0
    /\ frames = 0
    /\ frame_id = INVALID
    /\ current_frame_id = INVALID
    /\ backend = NoBackend
    /\ cube_map_view_matrices = "unset"
    /\ rendered = <<>>
    /\ data_to_save = NoBuffer
    /\ live = <<>>
    /\ destroyed = <<>>
    /\ wrappers = <<>>
    /\ log = <<>>

\* channel[i] * 2.f - 1.f, over unit
Signed(channel, unit) == 2 * channel - unit

\* if (dot < 1.f)
SqrtAlways(dot, one) == TRUE
IsUnitLength(dot, one) == dot < one

\* std::sqrt(1.f - dot) * 0.5f + 0.5f, else 0.5f
BlueNormal(red_channel, green_channel, unit) ==
    LET red == Signed(red_channel, unit)
        green == Signed(green_channel, unit)
        dot == red * red + green * green
    IN IF IsUnitLength(dot, unit * unit)
         THEN [radicand |-> unit * unit - dot, unit |-> unit]
         ELSE [radicand |-> 0, unit |-> unit]

\* for (size_t i = 0; i < blue_normal_channel.size(); i++) and normal.setImage(RGBA_32F,
\* red, green, blue, alpha) with alpha 1.f
ReconstructBlue ==
    /\ pc = "normal_normal"
    /\ normal' = [w |-> surface.w, h |-> surface.h,
                  red |-> surface.red, green |-> surface.green,
                  blue |-> [i \in DOMAIN surface.red |->
                              BlueNormal(surface.red[i], surface.green[i], BYTE_MAX)],
                  alpha |-> [i \in DOMAIN surface.red |-> BYTE_MAX]]
    /\ pc' = "normal_mao"
    /\ UNCHANGED <<args, wrappers, result, data, surface, metalness_ambient_occlusion, options,
                   total_mip_levels, loopVars, gpuVars, log>>

NextReconstruct == ReconstructBlue

SpecReconstruct == InitReconstruct /\ [][NextReconstruct]_vars

\* ------------------------------------- the prefilter pass loop, lines 1010-1038
\* The loop on its own, entered with the view counter the earlier loops leave behind
\* and with the history, the render targets and the handles of what came before left
\* out: faces of up to MaxPassLevels levels, base sizes that are no prefilter mip size.
PassOutputSizes == {1, 3, MAX_TEXTURE_SIZE}
PassPrefilterSizes == PowersOfTwo(MaxPassLevels - 1)

InitPrefilterPasses ==
    /\ args \in {[DefaultArgs EXCEPT !.classes = {"cube_map"}, !.input = "in",
                                     !.output = "out", !.output_size = n,
                                     !.output_irradiance = "irr", !.output_irradiance_size = 1,
                                     !.output_prefilter = "pre", !.output_prefilter_size = p] :
                     n \in PassOutputSizes, p \in PassPrefilterSizes}
    /\ pc = "prefilter_pass"
    /\ result = INVALID
    /\ data = NoData
    /\ surface = NullSurface
    /\ normal = NullSurface
    /\ metalness_ambient_occlusion = NullSurface
    /\ options = NoOptions
    /\ total_mip_levels = 1
    /\ mip_level = 0
    /\ side = 0
    /\ mip_size = args.output_prefilter_size
    /\ current_view = CUBE_SIDES * (4 + HalvingLoopPasses(args.output_size))
    /\ frames = 0
    /\ frame_id = INVALID
    /\ current_frame_id = INVALID
    /\ backend = [renderer_type |-> "Direct3D11", latency |-> 1]
    /\ cube_map_view_matrices = "CUBE_MAP_VIEWS"
    /\ rendered = <<>>
    /\ data_to_save = NoBuffer
    /\ live = <<>>
    /\ destroyed = <<>>
    /\ wrappers = <<>>
    /\ log = <<>>

NextPrefilterPasses == PrefilterPass

SpecPrefilterPasses == InitPrefilterPasses /\ [][NextPrefilterPasses]_vars

\* ------------------------------- the read back wait loops, lines 764-767, 936-939, 1090-1093
\* A wait loop on its own, entered right after readTexture returned the token frame_id,
\* against a GPU that may stop retiring frames: backend.responsive says whether
\* bgfx::frame() still hands out a newer frame number. Once it does not, frame() keeps
\* returning the number it returned before (or does not return), and nothing else in
\* the loop can change that.
WaitLoops == {"base_wait", "irradiance_wait", "prefilter_wait"}
AfterWait == {"base_setImage", "irradiance_setImage", "prefilter_setImage"}
TargetOfWait(loop) ==
    CASE loop = "base_wait" -> "cube_side_textures"
      [] loop = "irradiance_wait" -> "irradiance_textures"
      [] loop = "prefilter_wait" -> "prefilter_textures"

InitWait ==
    /\ args = [DefaultArgs EXCEPT !.classes = {"cube_map"}, !.input = "in",
                                  !.output = "out", !.output_size = 1,
                                  !.output_irradiance = "irr", !.output_irradiance_size = 1,
                                  !.output_prefilter = "pre", !.output_prefilter_size = 1]
    /\ pc \in WaitLoops
    /\ result = INVALID
    /\ data = NoData
    /\ surface = NullSurface
    /\ normal = NullSurface
    /\ metalness_ambient_occlusion = NullSurface
    /\ options = NoOptions
    /\ total_mip_levels = 1
    /\ mip_level = 0
    /\ side = 0
    /\ mip_size = 1
    /\ current_view = 0
    /\ frames \in 0 .. MaxFrames
    /\ backend \in [renderer_type : RendererTypes, latency : {1, MaxDelay}, responsive : {TRUE}]
    /\ frame_id = frames + backend.latency
    /\ current_frame_id = INVALID
    /\ cube_map_view_matrices = "unset"
    /\ rendered = <<>>
    /\ data_to_save = [src |-> <<TargetOfWait(pc), 0, 0>>, size |-> 1, matrix |-> 0,
                       token |-> frame_id]
    /\ live = <<[name |-> "blit_texture", face |-> 0, mip |-> 0, owner |-> Owner("blit_texture")]>>
    /\ destroyed = <<>>
    /\ wrappers = <<>>
    /\ log = <<>>

\* The GPU stops retiring frames.
GpuHangs ==
    /\ pc \in WaitLoops
    /\ backend.responsive
    /\ backend' = [backend EXCEPT !.responsive = FALSE]
    /\ UNCHANGED <<args, wrappers, pc, result, data, codecVars, loopVars, current_view, frameVars,
                   cube_map_view_matrices, rendered, data_to_save, live, destroyed, log>>

\* do { current_frame_id = bgfx::frame(); } while (current_frame_id < frame_id);
\* one iteration with a frame retired
WaitResponsive ==
    /\ backend.responsive
    /\ (BaseWait \/ IrradianceWait \/ PrefilterWait)

\* one iteration with no frame retired
WaitStalled ==
    /\ ~backend.responsive
    /\ \E loop \in WaitLoops :
         /\ pc = loop
         /\ current_frame_id' = frames
         /\ pc' = IF WaitsAgain(frames, frame_id) THEN loop
                  ELSE CASE loop = "base_wait" -> "base_setImage"
                         [] loop = "irradiance_wait" -> "irradiance_setImage"
                         [] loop = "prefilter_wait" -> "prefilter_setImage"
    /\ UNCHANGED <<args, wrappers, result, data, codecVars, loopVars, current_view, frames, frame_id,
                   backend, cube_map_view_matrices, rendered, data_to_save, live, destroyed, log>>

NextWait == GpuHangs \/ WaitResponsive \/ WaitStalled

\* The program keeps running its loop; nothing obliges the GPU to stay responsive.
SpecWait ==
    /\ InitWait
    /\ [][NextWait]_vars
    /\ WF_vars(WaitResponsive)
    /\ WF_vars(WaitStalled)

\* ----------------------------- int arithmetic on the image size, lines 70-72, 150-152, 619
\* data.width and data.height are int, so width * height, i * 4 + 2 and
\* width * height * 4 * 4 are computed in 32-bit signed int. A product is taken only when
\* it fits; one that does not fit is undefined behaviour, kept as `fits = FALSE` with no
\* value, after which the run may go anywhere.
INT_MAX == 2147483647
IntSizes == {0, 1, 2, 3, 16384, 32768, MAX_TEXTURE_SIZE, MAX_TEXTURE_SIZE + 1}

NoInt == [fits |-> FALSE, value |-> INVALID]
IntOf(v) == [fits |-> TRUE, value |-> v]
IntMul(a, b) ==
    IF a.fits /\ b.fits /\ (b.value = 0 \/ a.value <= INT_MAX \div b.value)
      THEN IntOf(a.value * b.value) ELSE NoInt
IntAdd(a, b) ==
    IF a.fits /\ b.fits /\ a.value <= INT_MAX - b.value THEN IntOf(a.value + b.value) ELSE NoInt

InitIntSizes ==
    /\ \E class \in {"albedo_roughness", "normal_metalness_ambient_occlusion", "cube_map"} :
         /\ args = IF class = "cube_map"
                     THEN [DefaultArgs EXCEPT !.classes = {class}, !.tiers = {"production"},
                                              !.input = "in", !.output = "out", !.output_size = 1,
                                              !.output_irradiance = "irr", !.output_irradiance_size = 1,
                                              !.output_prefilter = "pre", !.output_prefilter_size = 1]
                     ELSE [DefaultArgs EXCEPT !.classes = {class}, !.tiers = {"production"},
                                              !.input = "in", !.output = "out"]
         /\ pc = CASE class = "albedo_roughness" -> "albedo_validate"
                   [] class = "normal_metalness_ambient_occlusion" -> "normal_validate"
                   [] class = "cube_map" -> "cube_validate"
    /\ result = INVALID
    /\ data \in [loaded : {TRUE}, width : IntSizes, height : IntSizes, order : {"RGBA"}]
    /\ surface = NullSurface
    /\ normal = NullSurface
    /\ metalness_ambient_occlusion = NullSurface
    /\ options = NoOptions
    /\ total_mip_levels = 0
    /\ mip_level = 0
    /\ side = 0
    /\ mip_size = 0
    /\ current_view = 0
    /\ frames = 0
    /\ frame_id = INVALID
    /\ current_frame_id = INVALID
    /\ backend = IF "cube_map" \in args.classes
                   THEN [renderer_type |-> "Direct3D11", latency |-> 1] ELSE NoBackend
    /\ cube_map_view_matrices = "unset"
    /\ rendered = <<>>
    /\ data_to_save = NoBuffer
    /\ live = <<>>
    /\ destroyed = <<>>
    /\ wrappers = <<>>
    /\ log = <<>>

\* for (int i = 0; i < data.width * data.height; i++) std::swap(data.data[i * 4], data.data[i * 4 + 2]);
\* the loop bound, and the largest index of the last pass
SwapToBGRA ==
    /\ pc \in {"albedo_setImage", "normal_setImage"}
    /\ data.order = "RGBA"
    /\ LET count == IntMul(IntOf(data.width), IntOf(data.height))
           last == IF count.fits THEN IntOf(count.value - 1) ELSE NoInt
           index == IntAdd(IntMul(last, IntOf(4)), IntOf(2))
       IN /\ log' = log \o
               <<Ev("int", "width * height", INVALID, INVALID, count.fits, data.width, data.height,
                    count.value, INVALID),
                 Ev("int", "i * 4 + 2", INVALID, INVALID, index.fits, data.width, data.height,
                    index.value, INVALID)>>
          /\ IF count.fits /\ index.fits
               THEN data' = [data EXCEPT !.order = "BGRA"] /\ UNCHANGED <<pc, result>>
               ELSE \/ data' = [data EXCEPT !.order = "BGRA"] /\ UNCHANGED <<pc, result>>
                    \/ Return(1) /\ UNCHANGED data
    /\ UNCHANGED <<args, wrappers, codecVars, loopVars, gpuVars>>

\* bgfx::makeRef(data.data, data.width * data.height * 4 * 4)
UploadSize ==
    /\ pc = "cube_texture"
    /\ log # <<>> /\ log[Len(log)].op = "validate"
    /\ LET size == IntMul(IntMul(IntMul(IntOf(data.width), IntOf(data.height)), IntOf(4)), IntOf(4))
       IN /\ log' = Append(log, Ev("int", "width * height * 4 * 4", INVALID, INVALID, size.fits,
                                   data.width, data.height, size.value, INVALID))
          /\ IF size.fits THEN UNCHANGED <<pc, result>>
             ELSE \/ UNCHANGED <<pc, result>>
                  \/ Return(1)
    /\ UNCHANGED <<args, wrappers, data, codecVars, loopVars, gpuVars>>

NextIntSizes == AlbedoValidate \/ NormalValidate \/ CubeValidate \/ SwapToBGRA \/ UploadSize

SpecIntSizes == InitIntSizes /\ [][NextIntSizes]_vars

\* ------------------------------------------------ HandleWrapper, lines 421-463
\* The class on its own: up to MaxWrappers objects, any order of its operations, every
\* raw handle given to a wrapper fresh from a bgfx create call (or invalid, when the
\* call failed), as everywhere in compile_cube_map. Here live and destroyed hold handle
\* numbers, and pc the operation done last. operator= runs the destructor on *this and
\* then goes on writing the member; builds keep the member's storage as it is.
Slots == 1 .. MaxWrappers
NoWrapper == [alive |-> FALSE, handle |-> INVALID]
Known == {live[i] : i \in DOMAIN live} \cup {destroyed[i] : i \in DOMAIN destroyed}

\* bgfx::isValid(handle)
isValid(handle) == handle # INVALID

InitHandleWrapper ==
    /\ args = DefaultArgs
    /\ pc = "none"
    /\ result = INVALID
    /\ data = NoData
    /\ surface = NullSurface
    /\ normal = NullSurface
    /\ metalness_ambient_occlusion = NullSurface
    /\ options = NoOptions
    /\ total_mip_levels = 0
    /\ mip_level = 0
    /\ side = 0
    /\ mip_size = 0
    /\ current_view = 0
    /\ frames = 0
    /\ frame_id = INVALID
    /\ current_frame_id = INVALID
    /\ backend = NoBackend
    /\ cube_map_view_matrices = "unset"
    /\ rendered = <<>>
    /\ data_to_save = NoBuffer
    /\ live = <<>>
    /\ destroyed = <<>>
    /\ wrappers = [w \in Slots |-> NoWrapper]
    /\ log = <<>>

\* A bgfx create call: a new handle, or the invalid one.
CreateHandle(created) == IF created THEN Cardinality(Known) + 1 ELSE INVALID

\* ~HandleWrapper(): if (bgfx::isValid(handle)) bgfx::destroy(handle); then `created`,
\* the handle a create call of the same statement returned, joins the live ones.
Destructor(w, created) ==
    LET handle == wrappers[w].handle
        rest == IF isValid(handle) THEN SelectSeq(live, LAMBDA h : h # handle) ELSE live
    IN /\ destroyed' = IF isValid(handle) THEN Append(destroyed, handle) ELSE destroyed
       /\ live' = IF isValid(created) THEN Append(rest, created) ELSE rest

\* original.handle = BGFX_INVALID_HANDLE;
KeepsHandle(handle) == handle
MovedFrom(handle) == INVALID

\* HandleWrapper() and HandleWrapper(HandleType handle)
Construct ==
    /\ \E w \in Slots, created \in BOOLEAN :
         /\ ~wrappers[w].alive
         /\ created => Cardinality(Known) < MaxHandles
         /\ wrappers' = [wrappers EXCEPT ![w] = [alive |-> TRUE, handle |-> CreateHandle(created)]]
         /\ live' = IF created THEN Append(live, CreateHandle(created)) ELSE live
    /\ pc' = "construct"
    /\ UNCHANGED <<args, result, data, codecVars, loopVars, renderVars, destroyed, log>>

\* HandleWrapper(HandleWrapper&& original)
MoveConstruct ==
    /\ \E w \in Slots, original \in Slots :
         /\ ~wrappers[w].alive /\ wrappers[original].alive
         /\ wrappers' = [wrappers EXCEPT
                           ![w] = [alive |-> TRUE, handle |-> wrappers[original].handle],
                           ![original].handle = MovedFrom(wrappers[original].handle)]
    /\ pc' = "move_construct"
    /\ UNCHANGED <<args, result, data, codecVars, loopVars, renderVars, live, destroyed, log>>

\* operator=(HandleWrapper&& original), `original` possibly *this
MoveAssign ==
    /\ \E w \in Slots, original \in Slots :
         /\ wrappers[w].alive /\ wrappers[original].alive
         /\ Destructor(w, INVALID)
         /\ LET assigned == [wrappers EXCEPT ![w].handle = wrappers[original].handle]
            IN wrappers' = [assigned EXCEPT ![original].handle = MovedFrom(assigned[original].handle)]
         /\ pc' = IF w = original THEN "self_move_assign" ELSE "move_assign"
    /\ UNCHANGED <<args, result, data, codecVars, loopVars, renderVars, log>>

\* operator=(HandleType handle_)
AssignHandle ==
    /\ \E w \in Slots, created \in BOOLEAN :
         /\ wrappers[w].alive
         /\ created => Cardinality(Known) < MaxHandles
         /\ Destructor(w, CreateHandle(created))
         /\ wrappers' = [wrappers EXCEPT ![w].handle = CreateHandle(created)]
    /\ pc' = "assign_handle"
    /\ UNCHANGED <<args, result, data, codecVars, loopVars, renderVars, log>>

\* ~HandleWrapper() at the end of the object's life
Destruct ==
    /\ \E w \in Slots :
         /\ wrappers[w].alive
         /\ Destructor(w, INVALID)
         /\ wrappers' = [wrappers EXCEPT ![w] = NoWrapper]
    /\ pc' = "destruct"
    /\ UNCHANGED <<args, result, data, codecVars, loopVars, renderVars, log>>

NextHandleWrapper == Construct \/ MoveConstruct \/ MoveAssign \/ AssignHandle \/ Destruct

SpecHandleWrapper == InitHandleWrapper /\ [][NextHandleWrapper]_vars

\* ------------------------------------------------ compile_cube_map with large faces
\* The cube map path from main on, for face sizes of many mip levels: the passes and
\* read backs are the same statements, only the loops run longer.
ViewOutputSizes == {1, 16384}
ViewPrefilterSizes == {1, 4096}

InitViews ==
    /\ args \in {[DefaultArgs EXCEPT !.classes = {"cube_map"}, !.tiers = {"development"},
                                     !.input = "in", !.output = "out", !.output_size = n,
                                     !.output_irradiance = "irr", !.output_irradiance_size = 1,
                                     !.output_prefilter = "pre", !.output_prefilter_size = p] :
                     n \in ViewOutputSizes, p \in ViewPrefilterSizes}
    /\ pc = "main"
    /\ result = INVALID
    /\ data = NoData
    /\ surface = NullSurface
    /\ normal = NullSurface
    /\ metalness_ambient_occlusion = NullSurface
    /\ options = NoOptions
    /\ total_mip_levels = 0
    /\ mip_level = 0
    /\ side = 0
    /\ mip_size = 0
    /\ current_view = 0
    /\ frames = 0
    /\ frame_id = INVALID
    /\ current_frame_id = INVALID
    /\ backend = NoBackend
    /\ cube_map_view_matrices = "unset"
    /\ rendered = <<>>
    /\ data_to_save = NoBuffer
    /\ live = <<>>
    /\ destroyed = <<>>
    /\ wrappers = <<>>
    /\ log = <<>>

NextViews ==
    \/ Main
    \/ CubeBootstrap \/ CubeLoad \/ CubeValidate \/ CubeCreateTexture \/ CubeCreateVertexBuffer
    \/ CubeCreateTextureUniform \/ CubeCreateSideTexture \/ CubeCreateProgram \/ CubeCapturePass
    \/ BaseOutputHeader \/ BaseReadBack \/ BaseWait \/ BaseSetImage \/ BaseCompress
    \/ BaseBuildNextMipmap \/ BaseNextSide
    \/ CubeCreateCubeMapTexture \/ CubeMapPass
    \/ IrradianceCreateTexture \/ IrradianceCreateProgram \/ IrradiancePass
    \/ IrradianceOutputHeader \/ IrradianceReadBack \/ IrradianceWait \/ IrradianceSetImage
    \/ IrradianceCompress
    \/ PrefilterCreateTexture \/ PrefilterCreateProgram \/ PrefilterCreateSettingsUniform
    \/ PrefilterPass \/ PrefilterOutputHeader \/ PrefilterReadBack \/ PrefilterWait
    \/ PrefilterSetImage \/ PrefilterCompress \/ CubeReturn

SpecViews == InitViews /\ [][NextViews]_vars

\* =================================================================== claims
TwoD == {"albedo", "normal", "parallax"}
CubeContainers == {"base", "irradiance", "prefilter"}

\* main dispatched to a 2D compile function / to compile_cube_map.
Is2D == ~MainRejects(args) /\ "cube_map" \notin args.classes /\ pc # "main"
IsCube == ~MainRejects(args) /\ "cube_map" \in args.classes /\ pc # "main"

\* The container a 2D run writes.
Container ==
    IF "albedo_roughness" \in args.classes THEN "albedo"
    ELSE IF "parallax" \in args.classes THEN "parallax"
    ELSE "normal"

RECURSIVE Pow2(_)
Pow2(k) == IF k = 0 THEN 1 ELSE 2 * Pow2(k - 1)
IsPowerOfTwo(v) == \E k \in 0 .. 17 : v = Pow2(k)

OutOfRange(w, h) == w <= 0 \/ h <= 0 \/ w > 65535 \/ h > 65535
BadSize(w, h) == OutOfRange(w, h) \/ ~IsPowerOfTwo(w) \/ ~IsPowerOfTwo(h)

Last(seq) == seq[Len(seq)]
Headers(c) == SelectSeq(log, LAMBDA e : e.op = "outputHeader" /\ e.c = c)
Compresses(c) == SelectSeq(log, LAMBDA e : e.op = "compress" /\ e.c = c)
Has(op, c) == \E i \in DOMAIN log : log[i].op = op /\ log[i].c = c

\* The run was ended by the size check: nothing but the decode and the check happened.
RejectedAtValidation ==
    /\ \A i \in DOMAIN log : log[i].op \in {"init", "load", "validate"}
    /\ pc \in {"albedo_validate", "normal_validate", "parallax_validate", "cube_validate", "done"}
    /\ pc = "done" => result = 1 /\ Last(log).op = "validate" /\ ~Last(log).ok

\* C1: in the three 2D compile functions a decoded image whose width or height is zero or
\* negative, above 65535 or not a power of two makes the function return non-zero before
\* any setImage, outputHeader or compress.
C1_InvalidSizeRejected ==
    (Is2D /\ data.loaded /\ BadSize(data.width, data.height)) => RejectedAtValidation

C1_Witness ==
    /\ Is2D /\ "parallax" \in args.classes
    /\ data.loaded /\ data.width < 0 /\ IsPowerOfTwo(data.height)
    /\ pc = "done" /\ result = 1

\* C2 as stated: compile_cube_map rejects a decoded HDR image whose width or height is
\* zero, above 65535 or not a power of two before any GPU texture or buffer is created and
\* before any header.
C2_NonPowerOfTwoRejected ==
    (IsCube /\ data.loaded /\ BadSize(data.width, data.height)) => RejectedAtValidation

\* C2 amended: compile_cube_map rejects a decoded HDR image whose width or height is zero,
\* negative or above 65535 before any GPU texture or buffer is created and before any
\* header; every size within 1..65535, power of two or not, passes the size check.
C2_OutOfRangeRejected ==
    /\ (IsCube /\ data.loaded /\ OutOfRange(data.width, data.height)) => RejectedAtValidation
    /\ (IsCube /\ data.loaded /\ ~OutOfRange(data.width, data.height)) =>
         \A i \in DOMAIN log : log[i].op = "validate" => log[i].ok

C2_Witness ==
    /\ IsCube /\ data.loaded /\ data.width > 65535 /\ data.height = 2
    /\ pc = "done" /\ result = 1

\* C3: in each 2D compile function outputHeader is called once and before any compress,
\* and the compress calls use mip indices 0, 1, ..., N-1 in increasing order, none skipped
\* or repeated, N being the mip count the header declares.
C3_HeaderThenMipsInOrder ==
    Is2D =>
      LET hs == Headers(Container)
          cs == Compresses(Container)
      IN /\ Len(hs) <= 1
         /\ \A j \in DOMAIN log :
              log[j].op = "compress" =>
                \E i \in 1 .. (j - 1) : log[i].op = "outputHeader" /\ log[i].ok
         /\ \A k \in DOMAIN cs : cs[k].mip = k - 1
         /\ Len(hs) = 1 => Len(cs) <= hs[1].n
         /\ result = 0 => Len(hs) = 1 /\ Len(cs) = hs[1].n

C3_Witness ==
    /\ Is2D /\ pc = "done" /\ result = 0
    /\ Len(Compresses(Container)) = 3

\* C4: each cube container is compressed face-major, mip-minor: faces 0..5 outside, mips
\* 0..N-1 inside, every (face, mip) once on success, and the surface compressed as face i
\* was rendered with entry i of the view table.
C4_FaceMajorMipMinor ==
    IsCube =>
      /\ \A c \in CubeContainers :
           LET hs == Headers(c)
               cs == Compresses(c)
           IN /\ Len(cs) > 0 => Len(hs) = 1
              /\ Len(hs) = 1 =>
                   /\ Len(cs) <= 6 * hs[1].n
                   /\ \A k \in DOMAIN cs :
                        /\ cs[k].face = (k - 1) \div hs[1].n
                        /\ cs[k].mip = (k - 1) % hs[1].n
                        /\ cs[k].m = cs[k].face
              /\ result = 0 => Len(hs) = 1 /\ Len(cs) = 6 * hs[1].n
      /\ \A i \in DOMAIN log :
           log[i].op \in {"submit", "blit"} => log[i].m = log[i].face

C4_Witness ==
    /\ IsCube /\ pc = "done" /\ result = 0
    /\ Len(Compresses("base")) = 12 /\ Len(Compresses("prefilter")) = 12

\* Index of the last readTexture at or before position i of the history, 0 if none.
RECURSIVE LastReadTexture(_)
LastReadTexture(i) ==
    IF i = 0 THEN 0
    ELSE IF log[i].op = "readTexture" THEN i ELSE LastReadTexture(i - 1)

\* C5: in every read back of compile_cube_map, data_to_save is passed to setImage for a
\* (face, mip) only after bgfx::frame() returned a value >= the frame token that this
\* read back's readTexture returned.
C5_NoReadBeforeFence ==
    /\ \A i \in DOMAIN log :
         (log[i].op = "setImage" /\ log[i].c \in CubeContainers) =>
           LET r == LastReadTexture(i - 1)
           IN /\ r > 0
              /\ log[r].c = log[i].c /\ log[r].face = log[i].face /\ log[r].mip = log[i].mip
              /\ log[i].m # INVALID
              /\ log[i].m >= log[r].n
    /\ pc \in {"base_setImage", "irradiance_setImage", "prefilter_setImage"} =>
         /\ current_frame_id # INVALID
         /\ current_frame_id >= frame_id
         /\ data_to_save.token = frame_id

C5_Witness ==
    /\ pc = "prefilter_compress"
    /\ backend.latency > 1
    /\ Last(log).op = "setImage" /\ Last(log).m >= Last(log).n

BuildOps == {"buildNextMipmap", "normal.buildNextMipmap", "metalness_ambient_occlusion.buildNextMipmap"}

\* C6: in every compile path a failed buildNextMipmap aborts the asset: the function
\* returns non-zero and makes no further compress call.
C6_FailedMipBuildAborts ==
    \A i \in DOMAIN log :
      (log[i].op \in BuildOps /\ ~log[i].ok) =>
        /\ pc = "done" /\ result = 1
        /\ \A j \in (i + 1) .. Len(log) : log[j].op # "compress"

\* Steps whose failure C7 names: decode, validation, GPU resource creation (and the
\* window / renderer start-up), outputHeader, compress.
FailingSteps == {"init", "load", "validate", "create", "outputHeader", "compress"}
OutputOps == {"outputHeader", "compress", "submit", "blit", "readTexture"}

\* Header and every (face, mip) level of container c were written successfully.
Written(c, faces) ==
    LET hs == Headers(c)
        cs == Compresses(c)
    IN /\ Len(hs) = 1 /\ hs[1].ok
       /\ Len(cs) = faces * hs[1].n
       /\ \A k \in DOMAIN cs : cs[k].ok /\ cs[k].face = (k - 1) \div hs[1].n
                                /\ cs[k].mip = (k - 1) % hs[1].n

\* C7: a compile function returns 0 only if the header and every (face, mip) level of
\* every container it produces were written successfully; after the first failing decode,
\* validation, resource creation, outputHeader or compress it returns non-zero without a
\* further outputHeader, compress, submit or read back.
C7_TerminalOutcomes ==
    /\ pc = "done" <=> result \in {0, 1}
    /\ pc # "done" => result = INVALID
    /\ result = 0 =>
         IF IsCube THEN \A c \in CubeContainers : Written(c, 6)
         ELSE Is2D /\ Written(Container, 1)
    /\ \A i \in DOMAIN log :
         (log[i].op \in FailingSteps /\ ~log[i].ok) =>
           /\ pc = "done" /\ result = 1
           /\ \A j \in (i + 1) .. Len(log) : log[j].op \notin OutputOps

C7_Witness ==
    /\ IsCube /\ pc = "done" /\ result = 1
    /\ Last(log).op = "compress" /\ Last(log).c = "irradiance" /\ Last(log).face = 3
    /\ ~Last(log).ok

\* The stage of the cube-map pipeline a call belongs to, 0 for resource housekeeping.
Stage(e) ==
    CASE e.op = "load" -> 1
      [] e.op = "validate" -> 2
      [] e.op = "submit" /\ e.c = "capture" -> 3
      [] e.op # "submit" /\ e.c = "base" -> 4
      [] e.op = "submit" /\ e.c = "cube_map" -> 5
      [] e.op = "submit" /\ e.c = "irradiance" -> 6
      [] e.op # "submit" /\ e.c = "irradiance" -> 7
      [] e.op \in {"submit", "setUniform"} /\ e.c = "prefilter" -> 8
      [] e.op \notin {"submit", "setUniform"} /\ e.c = "prefilter" -> 9
      [] OTHER -> 0

Count(op, c) == Cardinality({i \in DOMAIN log : log[i].op = op /\ log[i].c = c /\ log[i].ok})

\* What must be complete when the first call of stage s is made.
StageReady(s) ==
    CASE s = 4 -> Count("submit", "capture") = 6
      [] s = 5 -> Len(Headers("base")) = 1 /\ Count("compress", "base") = 6 * Headers("base")[1].n
      [] s = 7 -> Count("submit", "irradiance") = 6
      [] s = 8 -> Len(Headers("irradiance")) = 1 /\ Count("compress", "irradiance") = 6
      [] s = 9 -> Count("submit", "prefilter") = 6 * count_mip_maps(prefilter_size)
      [] OTHER -> TRUE

\* C8: on the cube-map path the stages run in one fixed order, none re-entered: decode,
\* validate, capture, base header and levels, irradiance passes, irradiance header and
\* faces, prefilter passes, prefilter header and levels; no irradiance output before the
\* last base level, no prefilter output before the last irradiance face.
C8_StagesInOrder ==
    IsCube =>
      LET st == SelectSeq(log, LAMBDA e : Stage(e) > 0)
      IN /\ \A k \in 1 .. (Len(st) - 1) : Stage(st[k]) <= Stage(st[k + 1])
         /\ \A k \in 1 .. (Len(st) - 1) :
              Stage(st[k]) < Stage(st[k + 1]) =>
                /\ Stage(st[k + 1]) = Stage(st[k]) + 1
                /\ Stage(st[k + 1]) \in {4, 7, 9} => st[k + 1].op = "outputHeader"
         /\ Len(st) > 0 => StageReady(Stage(Last(st))) /\ Stage(st[1]) = 1
         /\ result = 0 => Stage(Last(st)) = 9

C8_Witness ==
    /\ IsCube /\ pc = "prefilter_read_back" /\ side = 0 /\ mip_level = 0
    /\ Count("compress", "irradiance") = 6

\* The policy table of the 2D classes: (class, tier) -> format and pixel layout.
Tier == CHOOSE t \in args.tiers : TRUE
Policy2D(c, t) ==
    IF c \in {"albedo", "normal"}
      THEN CASE t = "production" -> [format |-> "BC7", pixel |-> PixelDefault]
             [] t = "development" -> [format |-> "BC3", pixel |-> PixelDefault]
             [] t = "no_compression" -> [format |-> "RGBA", pixel |-> PixelDefault]
      ELSE CASE t \in {"production", "development"} -> [format |-> "BC4", pixel |-> PixelDefault]
             [] t = "no_compression" ->
                  [format |-> "RGBA", pixel |-> [bits |-> 8, channels |-> 1, type |-> "UnsignedNorm"]]

\* C9: for the three 2D classes the format is the policy table's function of class and
\* tier: BC7 / BC3 / raw RGBA for albedo-roughness and normal-metalness-AO, BC4 / BC4 / raw
\* 8-bit single channel for parallax.
C9_Format2D ==
    Is2D =>
      /\ \A i \in DOMAIN log :
           log[i].op = "outputHeader" => log[i].m = Policy2D(Container, Tier)
      /\ Has("outputHeader", Container) => options = Policy2D(Container, Tier)

C9_Witness ==
    /\ Is2D /\ "parallax" \in args.classes /\ Tier = "no_compression"
    /\ pc = "done" /\ result = 0
    /\ options.pixel.channels = 1

\* The policy table of the cube-map class.
Float16 == [format |-> "RGBA", pixel |-> [bits |-> 64, channels |-> 4, type |-> "Float"]]
PolicyCube(c, t) ==
    CASE c = "base" /\ t = "production" -> [format |-> "BC6", pixel |-> PixelDefault]
      [] c = "base" /\ t = "development" -> [format |-> "BC3", pixel |-> PixelDefault]
      [] c = "base" /\ t = "no_compression" -> Float16
      [] c = "irradiance" -> Float16
      [] c = "prefilter" /\ t \in {"production", "development"} -> [format |-> "BC6", pixel |-> PixelDefault]
      [] c = "prefilter" /\ t = "no_compression" -> Float16

\* C10: the cube-map formats follow the policy table: base BC6 / BC3 / 16-bit float,
\* irradiance 16-bit float at every tier, prefilter BC6 / BC6 / 16-bit float.
C10_FormatCube ==
    IsCube =>
      \A i \in DOMAIN log :
        log[i].op = "outputHeader" => log[i].m = PolicyCube(log[i].c, Tier)

C10_Witness ==
    /\ IsCube /\ Tier = "development" /\ pc = "done" /\ result = 0
    /\ Headers("base")[1].m.format = "BC3" /\ Headers("prefilter")[1].m.format = "BC6"
\* floor(log2(v)) for v >= 1.
FloorLog2(v) == CHOOSE k \in 0 .. 17 : Pow2(k) <= v /\ v < Pow2(k + 1)

\* C11: count_mip_maps(size) = floor(log2(size)) + 1 for every power-of-two size in
\* 1..65535 (1024 gives 11, 32 gives 6, 1 gives 1), and the function returns for every
\* size. The value the loop returns is also the value of the operator count_mip_maps the
\* compile functions use.
C11_CountMipMaps ==
    /\ [](pc = "count_mip_maps_return" =>
            /\ total_mip_levels = count_mip_maps(args.output_size)
            /\ (IsPowerOfTwo(args.output_size) /\ args.output_size <= 65535) =>
                 total_mip_levels = FloorLog2(args.output_size) + 1
            /\ args.output_size = 1024 => total_mip_levels = 11
            /\ args.output_size = 32 => total_mip_levels = 6
            /\ args.output_size = 1 => total_mip_levels = 1)
    /\ <>(pc = "count_mip_maps_return")

C11_Witness ==
    /\ pc = "count_mip_maps_return"
    /\ args.output_size = 1024
    /\ total_mip_levels = 11
\* The compress and buildNextMipmap calls of a 2D run, in call order.
MipSteps == SelectSeq(log, LAMBDA e : e.op = "compress" \/ e.op \in BuildOps)

\* The call expected at position k of MipSteps: a compress, then the mip builds of the
\* class (one surface, or the normal and the metalness / ambient occlusion surfaces).
ExpectedStep(k) ==
    IF Container = "normal"
      THEN CASE (k - 1) % 3 = 0 -> "compress"
             [] (k - 1) % 3 = 1 -> "normal.buildNextMipmap"
             [] (k - 1) % 3 = 2 -> "metalness_ambient_occlusion.buildNextMipmap"
      ELSE IF (k - 1) % 2 = 0 THEN "compress" ELSE "buildNextMipmap"

BuildsPerLevel == IF Container = "normal" THEN 2 ELSE 1

\* C12: for a valid w x h 2D image a run that returns 0 compresses exactly
\* N = log2(max(w, h)) + 1 levels, N being the count the header declares; buildNextMipmap
\* is called N - 1 times per surface, once between each pair of consecutive levels and
\* never after the last, and the level compressed at index k has size
\* max(1, w / 2^k) x max(1, h / 2^k).
C12_LevelCountAndSizes ==
    (Is2D /\ pc = "done" /\ result = 0) =>
      LET hs == Headers(Container)
          cs == Compresses(Container)
          N == FloorLog2(Max(data.width, data.height)) + 1
      IN /\ Len(hs) = 1 /\ hs[1].n = N
         /\ Len(cs) = N
         /\ Len(MipSteps) = N + BuildsPerLevel * (N - 1)
         /\ \A k \in DOMAIN MipSteps : MipSteps[k].op = ExpectedStep(k)
         /\ \A k \in DOMAIN cs :
              /\ cs[k].w = Max(1, data.width \div Pow2(k - 1))
              /\ cs[k].h = Max(1, data.height \div Pow2(k - 1))
\* Number of levels of container c compressed for face f.
LevelsOfFace(c, f) ==
    Cardinality({i \in DOMAIN log : log[i].op = "compress" /\ log[i].c = c /\ log[i].face = f})

\* C13: a successful cube-map run writes three cube containers whose headers declare
\* count_mip_maps(output_size), 1 and count_mip_maps(prefilter_size) mips (2, 1, 2 for
\* sizes 2, 1, 2), each with 6 faces, the number of levels compressed per face being the
\* declared count; the halving loops run count_mip_maps(size) times for every size >= 1.
C13_CubeMipCounts ==
    (IsCube /\ pc = "done" /\ result = 0) =>
      /\ \A c \in CubeContainers : Len(Headers(c)) = 1 /\ Headers(c)[1].face = 6
      /\ Headers("base")[1].n = FloorLog2(output_size) + 1
      /\ Headers("irradiance")[1].n = 1
      /\ Headers("prefilter")[1].n = FloorLog2(prefilter_size) + 1
      /\ (output_size = 2 /\ irradiance_size = 1 /\ prefilter_size = 2) =>
           /\ Headers("base")[1].n = 2
           /\ Headers("prefilter")[1].n = 2
      /\ \A c \in CubeContainers : \A f \in 0 .. 5 :
           LevelsOfFace(c, f) = Headers(c)[1].n
      /\ \A c \in CubeContainers :
           \A i \in DOMAIN log :
             (log[i].op = "compress" /\ log[i].c = c) => log[i].face \in 0 .. 5
      /\ \A n \in CountSizes \ {0} : HalvingLoopPasses(n) = count_mip_maps(n)

C13_Witness ==
    /\ IsCube /\ pc = "done" /\ result = 0
    /\ output_size = 2 /\ irradiance_size = 1 /\ prefilter_size = 2
    /\ LevelsOfFace("base", 5) = 2 /\ LevelsOfFace("irradiance", 5) = 1
    /\ LevelsOfFace("prefilter", 5) = 2
\* The render targets of the irradiance and prefilter passes: textures and frame buffers.
TargetTextures == {"irradiance_texture", "prefilter_texture"}
TargetFrameBuffers == {"irradiance_frame_buffers", "prefilter_frame_buffers"}
TargetsOf(c) ==
    IF c = "irradiance" THEN {"irradiance_texture", "irradiance_frame_buffers"}
    ELSE {"prefilter_texture", "prefilter_frame_buffers"}

LiveNamed(names) == Cardinality({k \in DOMAIN live : live[k].name \in names})

\* C14: in the irradiance and prefilter passes the render target (texture and frame
\* buffer) of a (face, mip) pair is destroyed once that pair has been read back, so at
\* most one mip level's worth (6) of render targets is live at any point.
C14_RenderTargetsTornDown ==
    /\ LiveNamed(TargetTextures) <= 6
    /\ LiveNamed(TargetFrameBuffers) <= 6
    /\ \A i \in DOMAIN log :
         (log[i].op = "setImage" /\ log[i].c \in {"irradiance", "prefilter"}) =>
           \A k \in DOMAIN live :
             live[k].name \in TargetsOf(log[i].c) =>
               ~(live[k].face = log[i].face /\ live[k].mip = log[i].mip)
ReadBackWaits == {"base_wait", "irradiance_wait", "prefilter_wait"}
ReadBackSetImages == {"base_setImage", "irradiance_setImage", "prefilter_setImage"}

\* C15: each read back creates its own staging (blit) texture, which is destroyed once
\* the wait loop has seen the fence and before the next one is created; at most one is
\* alive at any time and none when compile_cube_map has returned, whatever the outcome.
C15_OneStagingTexture ==
    /\ LiveNamed({"blit_texture"}) <= 1
    /\ LiveNamed({"blit_texture"}) = 1 <=> pc \in ReadBackWaits \cup ReadBackSetImages
    /\ pc = "done" => LiveNamed({"blit_texture"}) = 0
    /\ \A i \in DOMAIN log :
         /\ log[i].op = "readTexture" =>
              /\ i > 2
              /\ log[i - 2].op = "create" /\ log[i - 2].c = "blit_texture" /\ log[i - 2].ok
              /\ log[i - 2].face = log[i].face /\ log[i - 2].mip = log[i].mip
         /\ (log[i].op = "setImage" /\ log[i].c \in CubeContainers) =>
              /\ log[i - 1].op = "destroy" /\ log[i - 1].c = "blit_texture"
              /\ log[i - 1].face = log[i].face /\ log[i - 1].mip = log[i].mip
              /\ log[i].m >= log[i].n

C15_Witness ==
    /\ IsCube /\ pc = "done" /\ result = 1
    /\ Last(log).op = "setImage" /\ Last(log).c = "prefilter" /\ ~Last(log).ok
    /\ Last(log).face = 5 /\ Last(log).mip = 1
    /\ Cardinality({k \in DOMAIN destroyed : destroyed[k].name = "blit_texture"}) = 24
Created == {i \in DOMAIN log : log[i].op = "create" /\ log[i].ok}

\* C16: when compile_cube_map has returned, with success or through any early return,
\* every GPU handle it created has been destroyed: none is still alive, and there are
\* as many destroyed handles as successful creations.
C16_NoHandleLeaked ==
    pc = "done" =>
        /\ live = <<>>
        /\ Len(destroyed) = Cardinality(Created)

C16_Witness ==
    /\ IsCube /\ pc = "done" /\ result = 1
    /\ Last(log).op = "destroy" /\ Last(log).c = "vertex_shader"
    /\ log[Len(log) - 2].c = "irradiance_program_handle" /\ ~log[Len(log) - 2].ok
    /\ live = <<>>
    /\ \E k \in DOMAIN destroyed : destroyed[k].name = "cube_map_texture"
    /\ \E k \in DOMAIN destroyed : destroyed[k].name = "irradiance_texture"
    /\ Cardinality({k \in DOMAIN destroyed : destroyed[k].name = "vertex_shader"}) = 2
\* The value of a blue sample, sqrt(radicand) / unit * 0.5 + 0.5, against 0.5 and 1.0.
IsHalf(blue) == blue.radicand = 0
IsOne(blue) == blue.radicand = blue.unit * blue.unit
InHalfToOne(blue) == 0 <= blue.radicand /\ blue.radicand <= blue.unit * blue.unit

\* C17: with x = 2 Rn - 1, y = 2 Gn - 1 and d = x^2 + y^2, the reconstructed blue of a
\* pixel is sqrt(1 - d) * 0.5 + 0.5 when d < 1 and 0.5 when d >= 1, d = 1 included
\* (x = 0, y = 0 gives 1.0; x = 1, y = 0 and x = 1, y = 1 give 0.5); it lies in [0.5, 1.0].
C17_BlueReconstruction ==
    /\ pc = "normal_mao" =>
         \A i \in DOMAIN normal.blue :
           LET x == 2 * normal.red[i] - BYTE_MAX
               y == 2 * normal.green[i] - BYTE_MAX
               d == x * x + y * y
               one == BYTE_MAX * BYTE_MAX
           IN /\ d < one => normal.blue[i].radicand = one - d
              /\ d >= one => IsHalf(normal.blue[i])
              /\ InHalfToOne(normal.blue[i])
    /\ IsOne(BlueNormal(1, 1, 2))
    /\ IsHalf(BlueNormal(2, 1, 2))
    /\ IsHalf(BlueNormal(2, 2, 2))
    /\ \A r \in 0 .. 4, g \in 0 .. 4 : InHalfToOne(BlueNormal(r, g, 4))

C17_Witness ==
    /\ pc = "normal_mao" /\ DOMAIN normal.blue = {1}
    /\ normal.red[1] = BYTE_MAX /\ normal.green[1] = 128
    /\ IsHalf(normal.blue[1])
Uniforms == {i \in DOMAIN log : log[i].op = "setUniform"}

\* C18: the roughness passed to the prefilter pass of mip m is min(m, 4) / 4: 0 at mip 0,
\* never decreasing with m, strictly increasing up to mip 4 and 1 from mip 4 on; the
\* second parameter is output_size for every face and mip, and every pass has its own.
C18_RoughnessAndResolution ==
    \A i \in DOMAIN log :
      /\ log[i].op = "setUniform" =>
           LET m == log[i].mip
           IN /\ log[i].h = 4
              /\ log[i].w = IF m < 4 THEN m ELSE 4
              /\ m = 0 => log[i].w = 0
              /\ m >= 4 => log[i].w = log[i].h
              /\ log[i].n = args.output_size
              /\ (i > 3 /\ log[i - 3].op = "setUniform" /\ log[i - 3].face = log[i].face) =>
                   /\ log[i - 3].mip + 1 = m
                   /\ log[i - 3].w <= log[i].w
                   /\ m <= 4 => log[i - 3].w < log[i].w
      /\ (log[i].op = "submit" /\ log[i].c = "prefilter") =>
           /\ i > 1 /\ log[i - 1].op = "setUniform"
           /\ log[i - 1].face = log[i].face /\ log[i - 1].mip = log[i].mip

C18_Witness ==
    /\ pc = "prefilter_header"
    /\ args.output_size = 3 /\ args.output_prefilter_size = 32
    /\ \E i \in Uniforms : /\ log[i].face = 5 /\ log[i].mip = 5
                           /\ log[i].w = 4 /\ log[i].h = 4 /\ log[i].n = 3
                           /\ log[i + 1].w = 1
\* The compress call at position i has the surface that the read back just before it
\* filled: same container, face, mip and size.
FromOwnReadBack(i) ==
    /\ i > 1
    /\ log[i - 1].op = "setImage" /\ log[i - 1].ok
    /\ log[i - 1].c = log[i].c /\ log[i - 1].face = log[i].face /\ log[i - 1].mip = log[i].mip
    /\ log[i - 1].w = log[i].w /\ log[i - 1].h = log[i].h

\* The compress call at position i has the surface that buildNextMipmap just made
\* out of the previous level of the same face.
FromPreviousLevel(i) ==
    /\ i > 1
    /\ log[i - 1].op = "buildNextMipmap" /\ log[i - 1].ok
    /\ log[i - 1].c = log[i].c /\ log[i - 1].face = log[i].face /\ log[i - 1].mip + 1 = log[i].mip
    /\ log[i].w = Max(1, log[i - 1].w \div 2)

IsCubeCompress(i) == log[i].op = "compress" /\ log[i].c \in CubeContainers
CubeCompresses == {i \in DOMAIN log : IsCubeCompress(i)}

\* C19 as stated: every level written to a cube container is read back from a GPU pass
\* rendered at that level's resolution, and buildNextMipmap is never called on the cube
\* path.
C19_NeverDownsampled ==
    \A i \in DOMAIN log :
      /\ ~(log[i].op = "buildNextMipmap" /\ log[i].c \in CubeContainers)
      /\ IsCubeCompress(i) => FromOwnReadBack(i)

\* C19 amended: every irradiance and prefilter level, and level 0 of every base face, is
\* read back from the GPU pass rendered at that level's resolution and was never
\* downsampled; the levels above 0 of a base face are built by buildNextMipmap from the
\* level before, and buildNextMipmap is called for no other cube container.
C19_OnlyBaseDownsampled ==
    /\ \A i \in DOMAIN log :
         /\ (log[i].op = "buildNextMipmap" /\ log[i].c \in CubeContainers) => log[i].c = "base"
         /\ IsCubeCompress(i) =>
              IF log[i].c = "base" /\ log[i].mip > 0 THEN FromPreviousLevel(i)
                                                     ELSE FromOwnReadBack(i)
    /\ (pc = "base_compress" /\ mip_level < total_mip_levels) =>
         /\ surface.src = "cube_side_textures" /\ surface.builds = mip_level
         /\ rendered[<<"cube_side_textures", side, 0>>].size = output_size
    /\ pc = "irradiance_compress" =>
         /\ surface.src = "irradiance_textures" /\ surface.builds = 0
         /\ rendered[<<"irradiance_textures", side, 0>>].size = surface.w
    /\ pc = "prefilter_compress" =>
         /\ surface.src = "prefilter_textures" /\ surface.builds = 0
         /\ rendered[<<"prefilter_textures", side, mip_level>>].size = surface.w
         /\ surface.w = mip_size

C19_Witness ==
    /\ IsCube /\ pc = "done" /\ result = 0
    /\ output_size = 2 /\ prefilter_size = 2
    /\ \E i \in CubeCompresses : /\ log[i].c = "base" /\ log[i].face = 5 /\ log[i].mip = 1
                                 /\ log[i].w = 1 /\ FromPreviousLevel(i)
    /\ \E i \in CubeCompresses : /\ log[i].c = "prefilter" /\ log[i].face = 5 /\ log[i].mip = 1
                                 /\ log[i].w = 1 /\ FromOwnReadBack(i)
\* C20: a read back wait loop calls bgfx::frame() at least once and is left exactly when
\* a returned frame number is >= the token; if the frame counter reaches the token the
\* loop ends and the pipeline goes on to setImage, and if it never does the loop is
\* never left.
C20_WaitLoop ==
    /\ [](pc \in AfterWait => (current_frame_id # INVALID /\ current_frame_id >= frame_id))
    /\ [](pc \in WaitLoops /\ current_frame_id # INVALID => current_frame_id < frame_id)
    /\ [](pc \in WaitLoops \cup AfterWait)
    /\ (<>(frames >= frame_id)) => <>(pc \in AfterWait)
    /\ ([]backend.responsive) => <>(pc \in AfterWait)
    /\ ([](frames < frame_id)) => [](pc \in WaitLoops)

C20_Witness ==
    /\ pc = "irradiance_setImage"
    /\ backend.responsive /\ backend.latency = MaxDelay
    /\ frames = MaxFrames + MaxDelay
    /\ current_frame_id = frame_id
SetImageOps == {"setImage", "normal.setImage", "metalness_ambient_occlusion.setImage"}

\* C21: a Surface::setImage that returns false ends the compile function: it is the
\* last codec call of the run, the function returns non-zero, and no compress follows
\* with that surface, the repacking setImage of the normal mip loop included.
C21_SetImageFailureTerminal ==
    \A i \in DOMAIN log :
      (log[i].op \in SetImageOps /\ ~log[i].ok) =>
          /\ i = Len(log)
          /\ pc = "done" /\ result = 1
\* The two surfaces of the normal path after k downsample steps each, the normal one
\* renormalized after every step.
InLockStep(k) ==
    /\ normal.builds = k /\ metalness_ambient_occlusion.builds = k
    /\ normal.renorms = k
    /\ normal.w = metalness_ambient_occlusion.w /\ normal.h = metalness_ambient_occlusion.h

\* The compressed surface is the level packed at line 236 from the two surfaces as
\* they are after k steps.
PackedLevel(k) ==
    /\ surface.src = "packed"
    /\ surface.builds = k /\ surface.renorms = k
    /\ surface.w = normal.w /\ surface.h = normal.h

\* C22: in the normal / metalness / AO path, at the compress call of mip k both surfaces
\* have been downsampled exactly k times and have the same size, the normal surface was
\* renormalized once after each of these steps, and the level compressed is the one
\* packed from channels 0-1 of the normal and 2-3 of the metalness / AO surface.
C22_LockStep ==
    (pc = "normal_build" /\ Last(log).op = "compress") =>
        /\ Last(log).mip = mip_level
        /\ InLockStep(mip_level)
        /\ PackedLevel(mip_level)
\* The flag combinations C23 lets through, and the first position of each compile function.
Acceptable(a) ==
    /\ Cardinality(a.classes) = 1 /\ Cardinality(a.tiers) = 1
    /\ a.input # "" /\ a.output # ""
    /\ IF "cube_map" \in a.classes
         THEN /\ a.output_irradiance # "" /\ a.output_prefilter # ""
              /\ {a.output_size, a.output_irradiance_size, a.output_prefilter_size}
                    \subseteq 1 .. MAX_TEXTURE_SIZE
         ELSE /\ a.output_irradiance = "" /\ a.output_prefilter = ""
              /\ {a.output_size, a.output_irradiance_size, a.output_prefilter_size} = {0}
Entry(class) ==
    CASE class = "albedo_roughness" -> "albedo_load"
      [] class = "normal_metalness_ambient_occlusion" -> "normal_load"
      [] class = "parallax" -> "parallax_load"
      [] class = "cube_map" -> "cube_bootstrap"
Entries == {Entry(class) : class \in Classes}

\* C23: main calls a compile function only for exactly one class flag, exactly one tier
\* flag, non-empty input and output, and the cube-only arguments all present with sizes
\* in 1..65535 for --cube-map and all absent otherwise; it then calls the function of
\* that class and no other; every other combination returns non-zero with no call.
C23_Dispatch ==
    /\ [][pc = "main" =>
            IF Acceptable(args) /\ args.parsed /\ ~args.is_help
              THEN \E class \in args.classes : pc' = Entry(class) /\ result' = INVALID
              ELSE pc' = "done" /\ result' = 1 /\ log' = <<>>]_vars
    /\ [][pc # "main" => pc' \notin Entries]_vars
    /\ []((pc # "main" /\ ~Acceptable(args)) => (pc = "done" /\ result = 1 /\ log = <<>>))
    /\ []((pc # "main" /\ log # <<>>) =>
            /\ Acceptable(args)
            /\ IF "cube_map" \in args.classes THEN log[1].op = "init"
                                              ELSE log[1].op = "load" /\ log[1].c = Container)

C23_Witness ==
    /\ pc = "done" /\ result = 1 /\ log = <<>>
    /\ args.parsed /\ ~args.is_help
    /\ args.classes = {"albedo_roughness"} /\ args.tiers = {"development"}
    /\ args.input # "" /\ args.output # ""
    /\ args.output_size = 0 /\ args.output_irradiance = "" /\ args.output_irradiance_size = 0
    /\ args.output_prefilter = "" /\ args.output_prefilter_size = 1
\* C24: for every image size that passes validation, no signed 32-bit computation on
\* the dimensions overflows: width * height and i * 4 + 2 in the swap loops of the 2D
\* paths, width * height * 4 * 4 on the cube-map path.
C24_NoIntOverflow ==
    \A i \in DOMAIN log : log[i].op = "int" => log[i].ok
\* The textures the frame buffers of a vector are attached to (lines 693, 817, 879, 1018).
AttachedTo(frame_buffers) ==
    CASE frame_buffers = "cube_map_frame_buffers" -> {"cube_side_texture", "cube_map_texture"}
      [] frame_buffers = "irradiance_frame_buffers" -> {"irradiance_texture"}
      [] frame_buffers = "prefilter_frame_buffers" -> {"prefilter_texture"}
FrameBufferFirst(frame_buffers) ==
    \A k \in DOMAIN destroyed :
      destroyed[k].name \in AttachedTo(frame_buffers) =>
        /\ \A j \in DOMAIN destroyed : destroyed[j].name = frame_buffers => j < k
        /\ \A j \in DOMAIN live : live[j].name # frame_buffers

\* C25: on every exit path of compile_cube_map a frame buffer is destroyed before the
\* texture it is attached to; the frame buffers of cube_map_texture, kept in
\* cube_map_frame_buffers, never outlive cube_map_texture.
C25_FrameBufferBeforeTexture ==
    /\ FrameBufferFirst("cube_map_frame_buffers")
    /\ FrameBufferFirst("irradiance_frame_buffers")
    /\ FrameBufferFirst("prefilter_frame_buffers")
Alive == {w \in DOMAIN wrappers : wrappers[w].alive}
Held == {wrappers[w].handle : w \in Alive} \ {INVALID}
Destroyed == {destroyed[i] : i \in DOMAIN destroyed}

\* C26: under any sequence of HandleWrapper operations every valid handle a wrapper ever
\* held goes to bgfx::destroy exactly once: no handle is destroyed twice, a handle not
\* yet destroyed is held by exactly one wrapper (so none is left when all wrappers are
\* gone, and a moved-from wrapper no longer holds it), and a wrapper gives up a handle
\* only by destroying it or by handing it to another wrapper.
C26_DestroyedExactlyOnce ==
    /\ [](/\ Cardinality(Destroyed) = Len(destroyed)
          /\ {live[i] : i \in DOMAIN live} = Held
          /\ Held \cap Destroyed = {}
          /\ \A v \in Alive, w \in Alive :
               (v # w /\ isValid(wrappers[v].handle)) => wrappers[v].handle # wrappers[w].handle
          /\ Alive = {} => live = <<>>)
    /\ [][\A w \in Alive :
            (isValid(wrappers[w].handle) /\ wrappers'[w].handle # wrappers[w].handle) =>
               \/ /\ destroyed' = Append(destroyed, wrappers[w].handle)
                  /\ \A v \in DOMAIN wrappers : wrappers'[v].handle # wrappers[w].handle
               \/ /\ \A i \in DOMAIN destroyed' : destroyed'[i] # wrappers[w].handle
                  /\ \E v \in DOMAIN wrappers \ {w} :
                       wrappers'[v].alive /\ wrappers'[v].handle = wrappers[w].handle]_vars

C26_Witness ==
    /\ pc = "self_move_assign"
    /\ wrappers[1].alive /\ ~isValid(wrappers[1].handle)
    /\ wrappers[2].alive /\ wrappers[2].handle = 3
    /\ destroyed = <<1, 2>> /\ live = <<3>>
\* The render and blit passes submitted so far, in order.
IsPass(e) == e.op \in {"submit", "blit"}
Passes == SelectSeq(log, IsPass)
ViewsOfFullRun(a) ==
    24 + 6 * count_mip_maps(a.output_size) + 12 * count_mip_maps(a.output_prefilter_size)

\* C27: in compile_cube_map current_view only increases; every render or blit pass has a
\* view id of its own (the k-th pass has id k - 1); a full run uses exactly
\* 24 + 6 * count_mip_maps(output_size) + 12 * count_mip_maps(prefilter_size) views; and
\* for every size main accepts current_view stays below 256.
C27_OwnViewIds == LET passes == Passes IN \A k \in DOMAIN passes : passes[k].n = k - 1
C27_ViewsOnlyIncrease == [][current_view' >= current_view]_vars
C27_ViewsOfFullRun ==
    ("cube_map" \in args.classes /\ pc = "done" /\ result = 0) =>
       /\ current_view = ViewsOfFullRun(args)
       /\ Len(Passes) = ViewsOfFullRun(args)
C27_ViewIds ==
    /\ [](C27_OwnViewIds /\ C27_ViewsOfFullRun)
    /\ C27_ViewsOnlyIncrease
    /\ [](current_view < 256)
\* The blit events a step adds to the log.
NewBlits == {i \in (Len(log) + 1) .. Len(log') : log'[i].op = "blit"}
CubeMapTargets == {k \in DOMAIN rendered : k[1] = "cube_map_texture"}
CubeMapSamplers == {k \in DOMAIN rendered : rendered[k].sampled = "cube_map_texture"}

\* C28: a pass that reads a GPU texture comes after the pass that wrote it. A blit of a
\* (face, mip) render target has a view id greater than that of the render pass which
\* produced the target and is issued in a frame no earlier; every irradiance and
\* prefilter pass, which samples cube_map_texture, has a view id greater than those of
\* all 6 x mip levels passes rendering into cube_map_texture, and all of them are there.
C28_BlitAfterRender ==
    \A i \in NewBlits :
       LET key == data_to_save'.src
       IN /\ key \in DOMAIN rendered
          /\ key[2] = log'[i].face /\ key[3] = log'[i].mip
          /\ rendered[key].view < log'[i].n
          /\ rendered[key].frame <= frames
C28_SampleAfterCubeMap ==
    CubeMapSamplers # {} =>
       /\ Cardinality(CubeMapTargets) = CUBE_SIDES * count_mip_maps(output_size)
       /\ \A s \in CubeMapSamplers, t \in CubeMapTargets : rendered[s].view > rendered[t].view
C28_ReadsAfterWrites == [][C28_BlitAfterRender]_vars /\ []C28_SampleAfterCubeMap

C28_Witness ==
    /\ pc = "prefilter_wait"
    /\ data_to_save.src = <<"prefilter_textures", 5, 1>>
    /\ rendered[data_to_save.src].view < current_view
    /\ rendered[data_to_save.src].frame < frames
    /\ Cardinality(CubeMapTargets) = 2 * CUBE_SIDES
====
